---- MODULE Spec2Model ----
(***************************************************************************)
(* State-machine model of the astroport-dca contract                       *)
(* (contracts/dca/src): the three storage items CONFIG, USER_CONFIG and    *)
(* USER_DCA, and the eight execute handlers.  Each handler is an operator  *)
(* that computes the Result it returns together with the storage it leaves *)
(* behind and the messages of its Response; each action applies one        *)
(* handler to inputs drawn from small sets.                                *)
(***************************************************************************)
EXTENDS Integers, Sequences, FiniteSets, TLC

VARIABLES CONFIG, USER_CONFIG, USER_DCA, now, book, last, held

vars == <<CONFIG, USER_CONFIG, USER_DCA, now, book, last, held>>
storage == <<CONFIG, USER_CONFIG, USER_DCA>>

----------------------------------------------------------------------------
(* Bounds of the model *)

\* largest value of a u64 (block time, interval, last_purchase, id), scaled
MaxU64 == 3
\* largest value of a Uint128 (amounts), scaled
MaxU128 == 4
\* most orders kept per user
MaxOrders == 2
\* last block time reached
MaxTime == 2
\* last block time reached where the passing of time is not what is looked at
ShortTime == 1

----------------------------------------------------------------------------
(* Values *)

Native(d) == [native |-> TRUE, id |-> d]
Token(a) == [native |-> FALSE, id |-> a]
UUSD == Native("uusd")
ULUNA == Native("uluna")
CW20 == Token("cw20")
NoInfo == [native |-> FALSE, id |-> "-"]

\* Option<T>: None is the empty sequence, Some(v) is <<v>>
None == <<>>
Some(v) == <<v>>
unwrap_or(o, d) == IF o = None THEN d ELSE o[1]

Asset(i, a) == [info |-> i, amount |-> a]
Coin(d, a) == [denom |-> d, amount |-> a]

Users == {"alice", "bob"}
Owner == "owner"
Router == "router"

Ok == [kind |-> "Ok", info |-> <<>>]
Error(k, d) == [kind |-> k, info |-> d]

NoMsg == [type |-> "-", contract |-> "-", owner |-> "-", to |-> "-",
          asset |-> NoInfo, amount |-> 0, hops |-> <<>>, max_spread |-> 0,
          minimum_receive |-> None]
BankSend(to, denom, amount) ==
    [NoMsg EXCEPT !.type = "bank", !.to = to, !.asset = Native(denom), !.amount = amount]
TransferFrom(token, owner, recipient, amount) ==
    [NoMsg EXCEPT !.type = "transfer_from", !.contract = token.id, !.owner = owner,
                  !.to = recipient, !.asset = token, !.amount = amount]
ExecuteSwapOperations(router, funds_info, funds_amount, hops, to, max_spread) ==
    [NoMsg EXCEPT !.type = "swap", !.contract = router, !.asset = funds_info,
                  !.amount = funds_amount, !.hops = hops, !.to = to,
                  !.max_spread = max_spread]

\* UserConfig::default()
DefaultUserConfig ==
    [last_id |-> 0, max_hops |-> None, max_spread |-> None, tip_balance |-> <<>>]

\* USER_CONFIG.may_load(..)?.unwrap_or_default()
LoadUserConfig(uc, u) == unwrap_or(uc[u], DefaultUserConfig)
\* USER_DCA.may_load(..)?.unwrap_or_default()
LoadOrders(ud, u) == unwrap_or(ud[u], <<>>)

\* result of a handler: the Result, the storage when it returns, the messages
Outcome(res, c, uc, ud, msgs) ==
    [res |-> res, CONFIG |-> c, USER_CONFIG |-> uc, USER_DCA |-> ud, msgs |-> msgs]
Fail(res) == Outcome(res, CONFIG, USER_CONFIG, USER_DCA, <<>>)

\* iter().position / iter().find over the tests of the entries: index of the
\* first entry that passes, 0 if none
Position(hits) ==
    IF \E i \in DOMAIN hits : hits[i]
    THEN CHOOSE i \in DOMAIN hits : hits[i] /\ \A j \in DOMAIN hits : hits[j] => i <= j
    ELSE 0

\* Vec::remove(idx)
Remove(s, idx) == [i \in 1..(Len(s) - 1) |-> IF i < idx THEN s[i] ELSE s[i + 1]]

\* amount attached to the call in a denom (no coin of that denom: none)
FindFunds(funds, denom) == Position([at \in DOMAIN funds |-> funds[at].denom = denom])

\* the amount of a denom attached to a transaction
RECURSIVE Attached(_, _, _)
Attached(funds, denom, i) ==
    IF i > Len(funds) THEN 0
    ELSE (IF funds[i].denom = denom THEN funds[i].amount ELSE 0)
         + Attached(funds, denom, i + 1)

----------------------------------------------------------------------------
(* Collaborators *)

\* Asset::assert_sent_native_token_balance: the funds attached in the asset's
\* denom (nothing attached counts as zero) must equal the asset's amount
assert_sent_native_token_balance(asset, funds) ==
    LET i == FindFunds(funds, asset.info.id)
    IN  IF ~asset.info.native THEN TRUE
        ELSE IF i = 0 THEN asset.amount = 0
        ELSE funds[i].amount = asset.amount

\* SwapOperation::get_target_asset_info: the output asset of a hop
get_target_asset_info(hop) ==
    IF hop.op = "native_swap" THEN Native(hop.ask.id) ELSE hop.ask

\* Config::is_whitelisted_asset
is_whitelisted_asset(c, info) ==
    \E i \in 1..Len(c.whitelisted_tokens) : c.whitelisted_tokens[i] = info

\* Config::is_whitelisted_fee_asset
is_whitelisted_fee_asset(c, info) ==
    \E i \in 1..Len(c.whitelisted_fee_assets) : c.whitelisted_fee_assets[i].info = info

----------------------------------------------------------------------------
(* perform_dca_purchase *)

\* the whitelist test letting every native swap pass
HopWhitelisted_any_native(c, hop) ==
    IF hop.op = "native_swap"
    THEN TRUE
    ELSE is_whitelisted_asset(c, hop.ask)

\* the whitelist test of one middle hop (lines 70-94)
HopWhitelisted(c, hop) ==
    IF hop.op = "native_swap"
    THEN \E i \in 1..Len(c.whitelisted_tokens) :
            /\ c.whitelisted_tokens[i].native
            /\ c.whitelisted_tokens[i].id = hop.ask.id
    ELSE is_whitelisted_asset(c, hop.ask)

\* the closure rounding an amount down to whole fee units
FeeHops_rounding(c, a) ==
    LET w == Position([at \in DOMAIN c.whitelisted_fee_assets |-> c.whitelisted_fee_assets[at].info = a.info])
    IN  IF w = 0 THEN Error("NonWhitelistedTipAsset", <<a.info>>)
        ELSE IF c.whitelisted_fee_assets[w].amount = 0
             THEN Error("DivideByZero", <<a.amount>>)
        ELSE IF FALSE
             THEN Error("IndivisibleDeposit", <<>>)
        ELSE [kind |-> "Ok", info |-> <<a.amount \div c.whitelisted_fee_assets[w].amount>>]

\* the closure mapped over fee_redeem (lines 100-122): the hops one entry pays
FeeHops(c, a) ==
    LET w == Position([at \in DOMAIN c.whitelisted_fee_assets |-> c.whitelisted_fee_assets[at].info = a.info])
    IN  IF w = 0 THEN Error("NonWhitelistedTipAsset", <<a.info>>)
        ELSE IF c.whitelisted_fee_assets[w].amount = 0
             THEN Error("DivideByZero", <<a.amount>>)
        ELSE IF a.amount % c.whitelisted_fee_assets[w].amount # 0
             THEN Error("IndivisibleDeposit", <<>>)
        ELSE [kind |-> "Ok", info |-> <<a.amount \div c.whitelisted_fee_assets[w].amount>>]

\* Uint128 sum of the collected hop counts (lines 123-125), unbounded
RECURSIVE SumHops(_, _, _)
SumHops(c, fee_redeem, i) ==
    IF i > Len(fee_redeem) THEN 0
    ELSE FeeHops(c, fee_redeem[i]).info[1] + SumHops(c, fee_redeem, i + 1)

\* the tip loop paying every tip by a bank transfer
RECURSIVE PayTips_by_bank(_, _, _, _, _, _)
PayTips_by_bank(tip_balance, fee_redeem, i, msgs, sender, user) ==
    IF i > Len(fee_redeem)
    THEN [ok |-> TRUE, tip_balance |-> tip_balance, msgs |-> msgs]
    ELSE LET fee_asset == fee_redeem[i]
             b == Position([at \in DOMAIN tip_balance |-> tip_balance[at].info = fee_asset.info])
             msg == IF TRUE
                    THEN BankSend(sender, fee_asset.info.id, fee_asset.amount)
                    ELSE TransferFrom(fee_asset.info, user, sender, fee_asset.amount)
         IN  IF b = 0 \/ tip_balance[b].amount < fee_asset.amount
             THEN [ok |-> FALSE, tip_balance |-> tip_balance, msgs |-> msgs]
             ELSE PayTips_by_bank([tip_balance EXCEPT ![b].amount = @ - fee_asset.amount],
                          fee_redeem, i + 1, Append(msgs, msg), sender, user)

\* the tip loop emptying a balance that does not cover the fee
RECURSIVE PayTips_emptying(_, _, _, _, _, _)
PayTips_emptying(tip_balance, fee_redeem, i, msgs, sender, user) ==
    IF i > Len(fee_redeem)
    THEN [ok |-> TRUE, tip_balance |-> tip_balance, msgs |-> msgs]
    ELSE LET fee_asset == fee_redeem[i]
             b == Position([at \in DOMAIN tip_balance |-> tip_balance[at].info = fee_asset.info])
             msg == IF fee_asset.info.native
                    THEN BankSend(sender, fee_asset.info.id, fee_asset.amount)
                    ELSE TransferFrom(fee_asset.info, user, sender, fee_asset.amount)
         IN  IF b = 0
             THEN [ok |-> FALSE, tip_balance |-> tip_balance, msgs |-> msgs]
             ELSE PayTips_emptying([tip_balance EXCEPT ![b].amount =
                                       IF @ < fee_asset.amount THEN 0 ELSE @ - fee_asset.amount],
                                   fee_redeem, i + 1, Append(msgs, msg), sender, user)

\* the tip loop (lines 138-176): balances after paying fee_redeem[i..], and
\* the payment messages, or the failure of the first entry that cannot be paid
RECURSIVE PayTips(_, _, _, _, _, _)
PayTips(tip_balance, fee_redeem, i, msgs, sender, user) ==
    IF i > Len(fee_redeem)
    THEN [ok |-> TRUE, tip_balance |-> tip_balance, msgs |-> msgs]
    ELSE LET fee_asset == fee_redeem[i]
             b == Position([at \in DOMAIN tip_balance |-> tip_balance[at].info = fee_asset.info])
             msg == IF fee_asset.info.native
                    THEN BankSend(sender, fee_asset.info.id, fee_asset.amount)
                    ELSE TransferFrom(fee_asset.info, user, sender, fee_asset.amount)
         IN  IF b = 0 \/ tip_balance[b].amount < fee_asset.amount
             THEN [ok |-> FALSE, tip_balance |-> tip_balance, msgs |-> msgs]
             ELSE PayTips([tip_balance EXCEPT ![b].amount = @ - fee_asset.amount],
                          fee_redeem, i + 1, Append(msgs, msg), sender, user)

\* the closure of USER_DCA.update asking for the swap before it pulls the funds
PurchaseOrder_swap_first(c, orders_opt, max_spread, user, id, hops, tip_msgs, overflow_checks) ==
    IF orders_opt = None THEN Fail(Error("NonexistentDca", <<>>))
    ELSE
    LET orders == orders_opt[1]
        order_idx == Position([at \in DOMAIN orders |-> orders[at].id = id])
    IN  IF order_idx = 0 THEN Fail(Error("NonexistentDca", <<>>))
        ELSE
        LET order == orders[order_idx]
            sum == order.last_purchase + order.interval
            due == IF sum > MaxU64 THEN sum % (MaxU64 + 1) ELSE sum
        IN  IF sum > MaxU64 /\ overflow_checks THEN Fail(Error("Panic", <<"add">>))
            ELSE IF due > now THEN Fail(Error("PurchaseTooEarly", <<>>))
            ELSE IF get_target_asset_info(hops[Len(hops)]) # order.target_asset
                 THEN Fail(Error("TargetAssetAssertion", <<>>))
            ELSE IF order.initial_asset.amount < order.dca_amount
                 THEN Fail(Error("InsufficientBalance", <<>>))
            ELSE
            LET new_order == [order EXCEPT !.initial_asset.amount = @ - order.dca_amount,
                                           !.last_purchase = now]
                pull == IF order.initial_asset.info.native THEN <<>>
                        ELSE <<TransferFrom(order.initial_asset.info, user,
                                            c.router_addr, order.dca_amount)>>
                swap == IF order.initial_asset.info.native
                        THEN ExecuteSwapOperations(c.router_addr, order.initial_asset.info,
                                                   order.dca_amount, hops, user, max_spread)
                        ELSE ExecuteSwapOperations(c.router_addr, NoInfo, 0, hops, user,
                                                   max_spread)
                updated == [orders EXCEPT ![order_idx] = new_order]
                new_orders == IF new_order.initial_asset.amount = 0
                              THEN Remove(updated, order_idx) ELSE updated
            IN  Outcome(Ok, CONFIG, USER_CONFIG,
                        [USER_DCA EXCEPT ![user] = Some(new_orders)],
                        tip_msgs \o <<swap>> \o pull)

\* the closure of USER_DCA.update leaving an exhausted order in the list
PurchaseOrder_keep_exhausted(c, orders_opt, max_spread, user, id, hops, tip_msgs, overflow_checks) ==
    IF orders_opt = None THEN Fail(Error("NonexistentDca", <<>>))
    ELSE
    LET orders == orders_opt[1]
        order_idx == Position([at \in DOMAIN orders |-> orders[at].id = id])
    IN  IF order_idx = 0 THEN Fail(Error("NonexistentDca", <<>>))
        ELSE
        LET order == orders[order_idx]
            sum == order.last_purchase + order.interval
            due == IF sum > MaxU64 THEN sum % (MaxU64 + 1) ELSE sum
        IN  IF sum > MaxU64 /\ overflow_checks THEN Fail(Error("Panic", <<"add">>))
            ELSE IF due > now THEN Fail(Error("PurchaseTooEarly", <<>>))
            ELSE IF get_target_asset_info(hops[Len(hops)]) # order.target_asset
                 THEN Fail(Error("TargetAssetAssertion", <<>>))
            ELSE IF order.initial_asset.amount < order.dca_amount
                 THEN Fail(Error("InsufficientBalance", <<>>))
            ELSE
            LET new_order == [order EXCEPT !.initial_asset.amount = @ - order.dca_amount,
                                           !.last_purchase = now]
                pull == IF order.initial_asset.info.native THEN <<>>
                        ELSE <<TransferFrom(order.initial_asset.info, user,
                                            c.router_addr, order.dca_amount)>>
                swap == IF order.initial_asset.info.native
                        THEN ExecuteSwapOperations(c.router_addr, order.initial_asset.info,
                                                   order.dca_amount, hops, user, max_spread)
                        ELSE ExecuteSwapOperations(c.router_addr, NoInfo, 0, hops, user,
                                                   max_spread)
                updated == [orders EXCEPT ![order_idx] = new_order]
                new_orders == IF FALSE
                              THEN Remove(updated, order_idx) ELSE updated
            IN  Outcome(Ok, CONFIG, USER_CONFIG,
                        [USER_DCA EXCEPT ![user] = Some(new_orders)],
                        tip_msgs \o pull \o <<swap>>)

\* the closure of USER_DCA.update without the test of the last hop
PurchaseOrder_any_target(c, orders_opt, max_spread, user, id, hops, tip_msgs, overflow_checks) ==
    IF orders_opt = None THEN Fail(Error("NonexistentDca", <<>>))
    ELSE
    LET orders == orders_opt[1]
        order_idx == Position([at \in DOMAIN orders |-> orders[at].id = id])
    IN  IF order_idx = 0 THEN Fail(Error("NonexistentDca", <<>>))
        ELSE
        LET order == orders[order_idx]
            sum == order.last_purchase + order.interval
            due == IF sum > MaxU64 THEN sum % (MaxU64 + 1) ELSE sum
        IN  IF sum > MaxU64 /\ overflow_checks THEN Fail(Error("Panic", <<"add">>))
            ELSE IF due > now THEN Fail(Error("PurchaseTooEarly", <<>>))
            ELSE IF FALSE
                 THEN Fail(Error("TargetAssetAssertion", <<>>))
            ELSE IF order.initial_asset.amount < order.dca_amount
                 THEN Fail(Error("InsufficientBalance", <<>>))
            ELSE
            LET new_order == [order EXCEPT !.initial_asset.amount = @ - order.dca_amount,
                                           !.last_purchase = now]
                pull == IF order.initial_asset.info.native THEN <<>>
                        ELSE <<TransferFrom(order.initial_asset.info, user,
                                            c.router_addr, order.dca_amount)>>
                swap == IF order.initial_asset.info.native
                        THEN ExecuteSwapOperations(c.router_addr, order.initial_asset.info,
                                                   order.dca_amount, hops, user, max_spread)
                        ELSE ExecuteSwapOperations(c.router_addr, NoInfo, 0, hops, user,
                                                   max_spread)
                updated == [orders EXCEPT ![order_idx] = new_order]
                new_orders == IF new_order.initial_asset.amount = 0
                              THEN Remove(updated, order_idx) ELSE updated
            IN  Outcome(Ok, CONFIG, USER_CONFIG,
                        [USER_DCA EXCEPT ![user] = Some(new_orders)],
                        tip_msgs \o pull \o <<swap>>)

\* the closure of USER_DCA.update with a saturating subtraction
PurchaseOrder_saturating(c, orders_opt, max_spread, user, id, hops, tip_msgs, overflow_checks) ==
    IF orders_opt = None THEN Fail(Error("NonexistentDca", <<>>))
    ELSE
    LET orders == orders_opt[1]
        order_idx == Position([at \in DOMAIN orders |-> orders[at].id = id])
    IN  IF order_idx = 0 THEN Fail(Error("NonexistentDca", <<>>))
        ELSE
        LET order == orders[order_idx]
            sum == order.last_purchase + order.interval
            due == IF sum > MaxU64 THEN sum % (MaxU64 + 1) ELSE sum
        IN  IF sum > MaxU64 /\ overflow_checks THEN Fail(Error("Panic", <<"add">>))
            ELSE IF due > now THEN Fail(Error("PurchaseTooEarly", <<>>))
            ELSE IF get_target_asset_info(hops[Len(hops)]) # order.target_asset
                 THEN Fail(Error("TargetAssetAssertion", <<>>))
            ELSE IF FALSE
                 THEN Fail(Error("InsufficientBalance", <<>>))
            ELSE
            LET new_order == [order EXCEPT !.initial_asset.amount = IF @ < order.dca_amount THEN 0 ELSE @ - order.dca_amount,
                                           !.last_purchase = now]
                pull == IF order.initial_asset.info.native THEN <<>>
                        ELSE <<TransferFrom(order.initial_asset.info, user,
                                            c.router_addr, order.dca_amount)>>
                swap == IF order.initial_asset.info.native
                        THEN ExecuteSwapOperations(c.router_addr, order.initial_asset.info,
                                                   order.dca_amount, hops, user, max_spread)
                        ELSE ExecuteSwapOperations(c.router_addr, NoInfo, 0, hops, user,
                                                   max_spread)
                updated == [orders EXCEPT ![order_idx] = new_order]
                new_orders == IF new_order.initial_asset.amount = 0
                              THEN Remove(updated, order_idx) ELSE updated
            IN  Outcome(Ok, CONFIG, USER_CONFIG,
                        [USER_DCA EXCEPT ![user] = Some(new_orders)],
                        tip_msgs \o pull \o <<swap>>)

\* the closure of USER_DCA.update (lines 185-261) on the stored orders; the u64
\* addition of line 196 aborts the call in a build with overflow checks and
\* wraps around in one without
PurchaseOrder(c, orders_opt, max_spread, user, id, hops, tip_msgs, overflow_checks) ==
    IF orders_opt = None THEN Fail(Error("NonexistentDca", <<>>))
    ELSE
    LET orders == orders_opt[1]
        order_idx == Position([at \in DOMAIN orders |-> orders[at].id = id])
    IN  IF order_idx = 0 THEN Fail(Error("NonexistentDca", <<>>))
        ELSE
        LET order == orders[order_idx]
            sum == order.last_purchase + order.interval
            due == IF sum > MaxU64 THEN sum % (MaxU64 + 1) ELSE sum
        IN  IF sum > MaxU64 /\ overflow_checks THEN Fail(Error("Panic", <<"add">>))
            ELSE IF due > now THEN Fail(Error("PurchaseTooEarly", <<>>))
            ELSE IF get_target_asset_info(hops[Len(hops)]) # order.target_asset
                 THEN Fail(Error("TargetAssetAssertion", <<>>))
            ELSE IF order.initial_asset.amount < order.dca_amount
                 THEN Fail(Error("InsufficientBalance", <<>>))
            ELSE
            LET new_order == [order EXCEPT !.initial_asset.amount = @ - order.dca_amount,
                                           !.last_purchase = now]
                pull == IF order.initial_asset.info.native THEN <<>>
                        ELSE <<TransferFrom(order.initial_asset.info, user,
                                            c.router_addr, order.dca_amount)>>
                swap == IF order.initial_asset.info.native
                        THEN ExecuteSwapOperations(c.router_addr, order.initial_asset.info,
                                                   order.dca_amount, hops, user, max_spread)
                        ELSE ExecuteSwapOperations(c.router_addr, NoInfo, 0, hops, user,
                                                   max_spread)
                updated == [orders EXCEPT ![order_idx] = new_order]
                new_orders == IF new_order.initial_asset.amount = 0
                              THEN Remove(updated, order_idx) ELSE updated
            IN  Outcome(Ok, CONFIG, USER_CONFIG,
                        [USER_DCA EXCEPT ![user] = Some(new_orders)],
                        tip_msgs \o pull \o <<swap>>)

\* perform_dca_purchase looking the order up before it deducts the tips
perform_dca_purchase_lookup_first(sender, user, id, hops, fee_redeem, overflow_checks) ==
    LET user_config == LoadUserConfig(USER_CONFIG, user)
        contract_config == CONFIG
        hops_len == Len(hops)
        middle_hops == SubSeq(hops, 1, hops_len - 1)
        bad_hop == Position([at \in DOMAIN middle_hops |->
                                ~HopWhitelisted(contract_config, middle_hops[at])])
        bad_fee == Position([at \in DOMAIN fee_redeem |->
                                FeeHops(contract_config, fee_redeem[at]).kind # "Ok"])
        requested_fee_hops == SumHops(contract_config, fee_redeem, 1)
        paid == PayTips(user_config.tip_balance, fee_redeem, 1, <<>>, sender, user)
        max_spread == unwrap_or(user_config.max_spread, contract_config.max_spread)
    IN  IF hops = <<>> THEN Fail(Error("EmptyHopRoute", <<>>))
        ELSE IF hops_len > unwrap_or(user_config.max_hops, contract_config.max_hops)
             THEN Fail(Error("MaxHopsAssertion", <<hops_len>>))
        ELSE IF bad_hop # 0 THEN Fail(Error("InvalidHopRoute", <<hops[bad_hop].ask.id>>))
        ELSE IF bad_fee # 0 THEN Fail(FeeHops(contract_config, fee_redeem[bad_fee]))
        ELSE IF requested_fee_hops > MaxU128 THEN Fail(Error("Panic", <<"sum">>))
        ELSE IF requested_fee_hops > hops_len
             THEN Fail(Error("RedeemTipTooLarge", <<requested_fee_hops, hops_len>>))
        ELSE
        LET updated == PurchaseOrder(contract_config, USER_DCA[user], max_spread,
                                     user, id, hops, paid.msgs, overflow_checks)
        IN  IF updated.res.kind # "Ok" THEN updated
            ELSE IF ~paid.ok THEN Fail(Error("InsufficientTipBalance", <<>>))
            ELSE Outcome(Ok, CONFIG,
                         [USER_CONFIG EXCEPT ![user] =
                             Some([user_config EXCEPT !.tip_balance = paid.tip_balance])],
                         updated.USER_DCA, updated.msgs)

\* perform_dca_purchase saving a fresh configuration that holds the tips left
perform_dca_purchase_default_config(sender, user, id, hops, fee_redeem, overflow_checks) ==
    LET user_config == LoadUserConfig(USER_CONFIG, user)
        contract_config == CONFIG
        hops_len == Len(hops)
        middle_hops == SubSeq(hops, 1, hops_len - 1)
        bad_hop == Position([at \in DOMAIN middle_hops |->
                                ~HopWhitelisted(contract_config, middle_hops[at])])
        bad_fee == Position([at \in DOMAIN fee_redeem |->
                                FeeHops(contract_config, fee_redeem[at]).kind # "Ok"])
        requested_fee_hops == SumHops(contract_config, fee_redeem, 1)
        paid == PayTips(user_config.tip_balance, fee_redeem, 1, <<>>, sender, user)
        max_spread == unwrap_or(user_config.max_spread, contract_config.max_spread)
    IN  IF hops = <<>> THEN Fail(Error("EmptyHopRoute", <<>>))
        ELSE IF hops_len > unwrap_or(user_config.max_hops, contract_config.max_hops)
             THEN Fail(Error("MaxHopsAssertion", <<hops_len>>))
        ELSE IF bad_hop # 0 THEN Fail(Error("InvalidHopRoute", <<hops[bad_hop].ask.id>>))
        ELSE IF bad_fee # 0 THEN Fail(FeeHops(contract_config, fee_redeem[bad_fee]))
        ELSE IF requested_fee_hops > MaxU128 THEN Fail(Error("Panic", <<"sum">>))
        ELSE IF requested_fee_hops > hops_len
             THEN Fail(Error("RedeemTipTooLarge", <<requested_fee_hops, hops_len>>))
        ELSE IF ~paid.ok THEN Fail(Error("InsufficientTipBalance", <<>>))
        ELSE
        LET updated == PurchaseOrder(contract_config, USER_DCA[user], max_spread,
                                     user, id, hops, paid.msgs, overflow_checks)
        IN  IF updated.res.kind # "Ok" THEN updated
            ELSE Outcome(Ok, CONFIG,
                         [USER_CONFIG EXCEPT ![user] =
                             Some([DefaultUserConfig EXCEPT !.tip_balance = paid.tip_balance])],
                         updated.USER_DCA, updated.msgs)

\* perform_dca_purchase testing the route against the global hop limit only
perform_dca_purchase_global_hops(sender, user, id, hops, fee_redeem, overflow_checks) ==
    LET user_config == LoadUserConfig(USER_CONFIG, user)
        contract_config == CONFIG
        hops_len == Len(hops)
        middle_hops == SubSeq(hops, 1, hops_len - 1)
        bad_hop == Position([at \in DOMAIN middle_hops |->
                                ~HopWhitelisted(contract_config, middle_hops[at])])
        bad_fee == Position([at \in DOMAIN fee_redeem |->
                                FeeHops(contract_config, fee_redeem[at]).kind # "Ok"])
        requested_fee_hops == SumHops(contract_config, fee_redeem, 1)
        paid == PayTips(user_config.tip_balance, fee_redeem, 1, <<>>, sender, user)
        max_spread == unwrap_or(user_config.max_spread, contract_config.max_spread)
    IN  IF hops = <<>> THEN Fail(Error("EmptyHopRoute", <<>>))
        ELSE IF hops_len > contract_config.max_hops
             THEN Fail(Error("MaxHopsAssertion", <<hops_len>>))
        ELSE IF bad_hop # 0 THEN Fail(Error("InvalidHopRoute", <<hops[bad_hop].ask.id>>))
        ELSE IF bad_fee # 0 THEN Fail(FeeHops(contract_config, fee_redeem[bad_fee]))
        ELSE IF requested_fee_hops > MaxU128 THEN Fail(Error("Panic", <<"sum">>))
        ELSE IF requested_fee_hops > hops_len
             THEN Fail(Error("RedeemTipTooLarge", <<requested_fee_hops, hops_len>>))
        ELSE IF ~paid.ok THEN Fail(Error("InsufficientTipBalance", <<>>))
        ELSE
        LET updated == PurchaseOrder(contract_config, USER_DCA[user], max_spread,
                                     user, id, hops, paid.msgs, overflow_checks)
        IN  IF updated.res.kind # "Ok" THEN updated
            ELSE Outcome(Ok, CONFIG,
                         [USER_CONFIG EXCEPT ![user] =
                             Some([user_config EXCEPT !.tip_balance = paid.tip_balance])],
                         updated.USER_DCA, updated.msgs)

perform_dca_purchase(sender, user, id, hops, fee_redeem, overflow_checks) ==
    LET user_config == LoadUserConfig(USER_CONFIG, user)
        contract_config == CONFIG
        hops_len == Len(hops)
        middle_hops == SubSeq(hops, 1, hops_len - 1)
        bad_hop == Position([at \in DOMAIN middle_hops |->
                                ~HopWhitelisted(contract_config, middle_hops[at])])
        bad_fee == Position([at \in DOMAIN fee_redeem |->
                                FeeHops(contract_config, fee_redeem[at]).kind # "Ok"])
        requested_fee_hops == SumHops(contract_config, fee_redeem, 1)
        paid == PayTips(user_config.tip_balance, fee_redeem, 1, <<>>, sender, user)
        max_spread == unwrap_or(user_config.max_spread, contract_config.max_spread)
    IN  IF hops = <<>> THEN Fail(Error("EmptyHopRoute", <<>>))
        ELSE IF hops_len > unwrap_or(user_config.max_hops, contract_config.max_hops)
             THEN Fail(Error("MaxHopsAssertion", <<hops_len>>))
        ELSE IF bad_hop # 0 THEN Fail(Error("InvalidHopRoute", <<hops[bad_hop].ask.id>>))
        ELSE IF bad_fee # 0 THEN Fail(FeeHops(contract_config, fee_redeem[bad_fee]))
        ELSE IF requested_fee_hops > MaxU128 THEN Fail(Error("Panic", <<"sum">>))
        ELSE IF requested_fee_hops > hops_len
             THEN Fail(Error("RedeemTipTooLarge", <<requested_fee_hops, hops_len>>))
        ELSE IF ~paid.ok THEN Fail(Error("InsufficientTipBalance", <<>>))
        ELSE
        LET updated == PurchaseOrder(contract_config, USER_DCA[user], max_spread,
                                     user, id, hops, paid.msgs, overflow_checks)
        IN  IF updated.res.kind # "Ok" THEN updated
            ELSE Outcome(Ok, CONFIG,
                         [USER_CONFIG EXCEPT ![user] =
                             Some([user_config EXCEPT !.tip_balance = paid.tip_balance])],
                         updated.USER_DCA, updated.msgs)

----------------------------------------------------------------------------
(* create_dca_order *)

\* create_dca_order counting the new id before it checks the funds sent
create_dca_order_count_first(sender, initial_asset, target_asset, interval, dca_amount, first_purchase, funds, allowance) ==
    LET orders == LoadOrders(USER_DCA, sender)
        config == LoadUserConfig(USER_CONFIG, sender)
    IN  IF initial_asset.info = target_asset THEN Fail(Error("DuplicateAsset", <<>>))
        ELSE IF dca_amount > initial_asset.amount THEN Fail(Error("DepositTooSmall", <<>>))
        ELSE IF dca_amount = 0 THEN Fail(Error("DivideByZero", <<initial_asset.amount>>))
        ELSE IF initial_asset.amount % dca_amount # 0
             THEN Fail(Error("IndivisibleDeposit", <<>>))
        ELSE IF initial_asset.info.native
                /\ ~assert_sent_native_token_balance(initial_asset, funds)
             THEN Outcome(Error("NativeBalanceMismatch", <<>>), CONFIG,
                          [USER_CONFIG EXCEPT ![sender] =
                              Some([config EXCEPT !.last_id = (@ + 1) % (MaxU64 + 1)])],
                          USER_DCA, <<>>)
        ELSE IF ~initial_asset.info.native /\ allowance # initial_asset.amount
             THEN Fail(Error("InvalidTokenDeposit", <<>>))
        ELSE IF config.last_id + 1 > MaxU64
             THEN Fail(Error("Overflow", <<"add", config.last_id, 1>>))
        ELSE
        LET id == config.last_id + 1
            order == [id |-> id, initial_asset |-> initial_asset,
                      target_asset |-> target_asset, interval |-> interval,
                      last_purchase |-> unwrap_or(first_purchase, 0),
                      dca_amount |-> dca_amount]
        IN  Outcome(Ok, CONFIG,
                    [USER_CONFIG EXCEPT ![sender] = Some([config EXCEPT !.last_id = id])],
                    [USER_DCA EXCEPT ![sender] = Some(Append(orders, order))],
                    <<>>)

\* create_dca_order without the test that the deposit divides into purchases
create_dca_order_any_amount(sender, initial_asset, target_asset, interval, dca_amount, first_purchase, funds, allowance) ==
    LET orders == LoadOrders(USER_DCA, sender)
        config == LoadUserConfig(USER_CONFIG, sender)
    IN  IF initial_asset.info = target_asset THEN Fail(Error("DuplicateAsset", <<>>))
        ELSE IF dca_amount > initial_asset.amount THEN Fail(Error("DepositTooSmall", <<>>))
        ELSE IF dca_amount = 0 THEN Fail(Error("DivideByZero", <<initial_asset.amount>>))
        ELSE IF initial_asset.info.native
                /\ ~assert_sent_native_token_balance(initial_asset, funds)
             THEN Fail(Error("NativeBalanceMismatch", <<>>))
        ELSE IF ~initial_asset.info.native /\ allowance # initial_asset.amount
             THEN Fail(Error("InvalidTokenDeposit", <<>>))
        ELSE IF config.last_id + 1 > MaxU64
             THEN Fail(Error("Overflow", <<"add", config.last_id, 1>>))
        ELSE
        LET id == config.last_id + 1
            order == [id |-> id, initial_asset |-> initial_asset,
                      target_asset |-> target_asset, interval |-> interval,
                      last_purchase |-> unwrap_or(first_purchase, 0),
                      dca_amount |-> dca_amount]
        IN  Outcome(Ok, CONFIG,
                    [USER_CONFIG EXCEPT ![sender] = Some([config EXCEPT !.last_id = id])],
                    [USER_DCA EXCEPT ![sender] = Some(Append(orders, order))],
                    <<>>)

\* create_dca_order accepting any allowance that covers the deposit
create_dca_order_allowance_covers(sender, initial_asset, target_asset, interval, dca_amount, first_purchase, funds, allowance) ==
    LET orders == LoadOrders(USER_DCA, sender)
        config == LoadUserConfig(USER_CONFIG, sender)
    IN  IF initial_asset.info = target_asset THEN Fail(Error("DuplicateAsset", <<>>))
        ELSE IF dca_amount > initial_asset.amount THEN Fail(Error("DepositTooSmall", <<>>))
        ELSE IF dca_amount = 0 THEN Fail(Error("DivideByZero", <<initial_asset.amount>>))
        ELSE IF initial_asset.amount % dca_amount # 0
             THEN Fail(Error("IndivisibleDeposit", <<>>))
        ELSE IF initial_asset.info.native
                /\ ~assert_sent_native_token_balance(initial_asset, funds)
             THEN Fail(Error("NativeBalanceMismatch", <<>>))
        ELSE IF ~initial_asset.info.native /\ allowance < initial_asset.amount
             THEN Fail(Error("InvalidTokenDeposit", <<>>))
        ELSE IF config.last_id + 1 > MaxU64
             THEN Fail(Error("Overflow", <<"add", config.last_id, 1>>))
        ELSE
        LET id == config.last_id + 1
            order == [id |-> id, initial_asset |-> initial_asset,
                      target_asset |-> target_asset, interval |-> interval,
                      last_purchase |-> unwrap_or(first_purchase, 0),
                      dca_amount |-> dca_amount]
        IN  Outcome(Ok, CONFIG,
                    [USER_CONFIG EXCEPT ![sender] = Some([config EXCEPT !.last_id = id])],
                    [USER_DCA EXCEPT ![sender] = Some(Append(orders, order))],
                    <<>>)

\* create_dca_order with a wrapping id counter
create_dca_order_wrapping(sender, initial_asset, target_asset, interval, dca_amount, first_purchase, funds, allowance) ==
    LET orders == LoadOrders(USER_DCA, sender)
        config == LoadUserConfig(USER_CONFIG, sender)
    IN  IF initial_asset.info = target_asset THEN Fail(Error("DuplicateAsset", <<>>))
        ELSE IF dca_amount > initial_asset.amount THEN Fail(Error("DepositTooSmall", <<>>))
        ELSE IF dca_amount = 0 THEN Fail(Error("DivideByZero", <<initial_asset.amount>>))
        ELSE IF initial_asset.amount % dca_amount # 0
             THEN Fail(Error("IndivisibleDeposit", <<>>))
        ELSE IF initial_asset.info.native
                /\ ~assert_sent_native_token_balance(initial_asset, funds)
             THEN Fail(Error("NativeBalanceMismatch", <<>>))
        ELSE IF ~initial_asset.info.native /\ allowance # initial_asset.amount
             THEN Fail(Error("InvalidTokenDeposit", <<>>))
        ELSE
        LET id == (config.last_id + 1) % (MaxU64 + 1)
            order == [id |-> id, initial_asset |-> initial_asset,
                      target_asset |-> target_asset, interval |-> interval,
                      last_purchase |-> unwrap_or(first_purchase, 0),
                      dca_amount |-> dca_amount]
        IN  Outcome(Ok, CONFIG,
                    [USER_CONFIG EXCEPT ![sender] = Some([config EXCEPT !.last_id = id])],
                    [USER_DCA EXCEPT ![sender] = Some(Append(orders, order))],
                    <<>>)

create_dca_order(sender, initial_asset, target_asset, interval, dca_amount, first_purchase, funds, allowance) ==
    LET orders == LoadOrders(USER_DCA, sender)
        config == LoadUserConfig(USER_CONFIG, sender)
    IN  IF initial_asset.info = target_asset THEN Fail(Error("DuplicateAsset", <<>>))
        ELSE IF dca_amount > initial_asset.amount THEN Fail(Error("DepositTooSmall", <<>>))
        ELSE IF dca_amount = 0 THEN Fail(Error("DivideByZero", <<initial_asset.amount>>))
        ELSE IF initial_asset.amount % dca_amount # 0
             THEN Fail(Error("IndivisibleDeposit", <<>>))
        ELSE IF initial_asset.info.native
                /\ ~assert_sent_native_token_balance(initial_asset, funds)
             THEN Fail(Error("NativeBalanceMismatch", <<>>))
        ELSE IF ~initial_asset.info.native /\ allowance # initial_asset.amount
             THEN Fail(Error("InvalidTokenDeposit", <<>>))
        ELSE IF config.last_id + 1 > MaxU64
             THEN Fail(Error("Overflow", <<"add", config.last_id, 1>>))
        ELSE
        LET id == config.last_id + 1
            order == [id |-> id, initial_asset |-> initial_asset,
                      target_asset |-> target_asset, interval |-> interval,
                      last_purchase |-> unwrap_or(first_purchase, 0),
                      dca_amount |-> dca_amount]
        IN  Outcome(Ok, CONFIG,
                    [USER_CONFIG EXCEPT ![sender] = Some([config EXCEPT !.last_id = id])],
                    [USER_DCA EXCEPT ![sender] = Some(Append(orders, order))],
                    <<>>)

----------------------------------------------------------------------------
(* cancel_dca_order *)

\* cancel_dca_order refunding one purchase amount instead of what remains
cancel_dca_order_refund_dca(sender, id) ==
    IF USER_DCA[sender] = None THEN Fail(Error("NonexistentDca", <<>>))
    ELSE
    LET orders == USER_DCA[sender][1]
        order_position == Position([at \in DOMAIN orders |-> orders[at].id = id])
    IN  IF order_position = 0 THEN Fail(Error("NonexistentDca", <<>>))
        ELSE
        LET removed_order == orders[order_position]
            funds == IF removed_order.initial_asset.info.native
                     THEN <<BankSend(sender, removed_order.initial_asset.info.id,
                                     removed_order.dca_amount)>>
                     ELSE <<>>
        IN  Outcome(Ok, CONFIG, USER_CONFIG,
                    [USER_DCA EXCEPT ![sender] = Some(Remove(orders, order_position))],
                    funds)

\* cancel_dca_order sending a bank transfer for a ledger asset as well
cancel_dca_order_refund_ledger(sender, id) ==
    IF USER_DCA[sender] = None THEN Fail(Error("NonexistentDca", <<>>))
    ELSE
    LET orders == USER_DCA[sender][1]
        order_position == Position([at \in DOMAIN orders |-> orders[at].id = id])
    IN  IF order_position = 0 THEN Fail(Error("NonexistentDca", <<>>))
        ELSE
        LET removed_order == orders[order_position]
            funds == IF TRUE
                     THEN <<BankSend(sender, removed_order.initial_asset.info.id,
                                     removed_order.initial_asset.amount)>>
                     ELSE <<>>
        IN  Outcome(Ok, CONFIG, USER_CONFIG,
                    [USER_DCA EXCEPT ![sender] = Some(Remove(orders, order_position))],
                    funds)

\* cancel_dca_order looking the id up in every user's orders
cancel_dca_order_of_anyone(sender, id) ==
    LET holders == {u \in Users : \E at \in DOMAIN LoadOrders(USER_DCA, u) :
                                      LoadOrders(USER_DCA, u)[at].id = id}
    IN  IF holders = {} THEN Fail(Error("NonexistentDca", <<>>))
        ELSE
        LET owner == IF sender \in holders THEN sender ELSE CHOOSE u \in holders : TRUE
            orders == USER_DCA[owner][1]
            order_position == Position([at \in DOMAIN orders |-> orders[at].id = id])
            removed_order == orders[order_position]
            funds == IF removed_order.initial_asset.info.native
                     THEN <<BankSend(sender, removed_order.initial_asset.info.id,
                                     removed_order.initial_asset.amount)>>
                     ELSE <<>>
        IN  Outcome(Ok, CONFIG, USER_CONFIG,
                    [USER_DCA EXCEPT ![owner] = Some(Remove(orders, order_position))],
                    funds)

cancel_dca_order(sender, id) ==
    IF USER_DCA[sender] = None THEN Fail(Error("NonexistentDca", <<>>))
    ELSE
    LET orders == USER_DCA[sender][1]
        order_position == Position([at \in DOMAIN orders |-> orders[at].id = id])
    IN  IF order_position = 0 THEN Fail(Error("NonexistentDca", <<>>))
        ELSE
        LET removed_order == orders[order_position]
            funds == IF removed_order.initial_asset.info.native
                     THEN <<BankSend(sender, removed_order.initial_asset.info.id,
                                     removed_order.initial_asset.amount)>>
                     ELSE <<>>
        IN  Outcome(Ok, CONFIG, USER_CONFIG,
                    [USER_DCA EXCEPT ![sender] = Some(Remove(orders, order_position))],
                    funds)

----------------------------------------------------------------------------
(* withdraw *)

\* the loop of lines 33-54 from entry i on
RECURSIVE WithdrawLoop(_, _, _, _, _, _)
WithdrawLoop(c, tip_balance, assets, i, send_msgs, sender) ==
    IF i > Len(assets)
    THEN [res |-> Ok, tip_balance |-> tip_balance, msgs |-> send_msgs]
    ELSE LET asset == assets[i]
             b == Position([at \in DOMAIN tip_balance |-> tip_balance[at].info = asset.info])
         IN  IF ~is_whitelisted_fee_asset(c, asset.info)
             THEN [res |-> Error("NonWhitelistedTipAsset", <<asset.info>>),
                   tip_balance |-> tip_balance, msgs |-> send_msgs]
             ELSE IF b = 0
             THEN [res |-> Error("TipAssetNotDeposited", <<asset.info>>),
                   tip_balance |-> tip_balance, msgs |-> send_msgs]
             ELSE IF tip_balance[b].amount < asset.amount
             THEN [res |-> Error("Overflow", <<"sub", tip_balance[b].amount, asset.amount>>),
                   tip_balance |-> tip_balance, msgs |-> send_msgs]
             ELSE WithdrawLoop(c, [tip_balance EXCEPT ![b].amount = @ - asset.amount],
                               assets, i + 1,
                               IF asset.info.native
                               THEN Append(send_msgs,
                                           BankSend(sender, asset.info.id, asset.amount))
                               ELSE send_msgs,
                               sender)

\* lines 59-65: the entry kept for the user after a withdrawal
WithdrawSave(user_config) ==
    IF \A i \in 1..Len(user_config.tip_balance) : user_config.tip_balance[i].amount = 0
    THEN None
    ELSE Some(user_config)

withdraw(sender, assets) ==
    LET user_config == LoadUserConfig(USER_CONFIG, sender)
        done == WithdrawLoop(CONFIG, user_config.tip_balance, assets, 1, <<>>, sender)
    IN  IF done.res.kind # "Ok" THEN Fail(done.res)
        ELSE Outcome(Ok, CONFIG,
                     [USER_CONFIG EXCEPT ![sender] =
                         WithdrawSave([user_config EXCEPT !.tip_balance = done.tip_balance])],
                     USER_DCA, done.msgs)

----------------------------------------------------------------------------
(* add_bot_tip *)

\* the loop of lines 45-93 pushing a new entry for every asset listed
RECURSIVE TipLoop_push(_, _, _, _, _)
TipLoop_push(tip_balance, assets, i, funds, allowance) ==
    IF i > Len(assets) THEN [res |-> Ok, tip_balance |-> tip_balance]
    ELSE LET asset == assets[i]
             f == FindFunds(funds, asset.info.id)
             b == Position([at \in DOMAIN tip_balance |-> tip_balance[at].info = asset.info])
         IN  IF asset.info.native /\ f = 0
             THEN [res |-> Error("TipDepositMissingAsset", <<asset>>),
                   tip_balance |-> tip_balance]
             ELSE IF asset.info.native /\ funds[f].amount # asset.amount
             THEN [res |-> Error("InvalidTipDeposit", <<funds[f].amount, asset>>),
                   tip_balance |-> tip_balance]
             ELSE IF ~asset.info.native /\ allowance # asset.amount
             THEN [res |-> Error("InvalidTipDeposit", <<allowance, asset>>),
                   tip_balance |-> tip_balance]
             ELSE IF TRUE
             THEN TipLoop_push(Append(tip_balance, asset), assets, i + 1, funds, allowance)
             ELSE IF tip_balance[b].amount + asset.amount > MaxU128
             THEN [res |-> Error("Overflow", <<"add", tip_balance[b].amount, asset.amount>>),
                   tip_balance |-> tip_balance]
             ELSE TipLoop_push([tip_balance EXCEPT ![b].amount = @ + asset.amount],
                          assets, i + 1, funds, allowance)

\* the loop of lines 45-93 from entry i on
RECURSIVE TipLoop(_, _, _, _, _)
TipLoop(tip_balance, assets, i, funds, allowance) ==
    IF i > Len(assets) THEN [res |-> Ok, tip_balance |-> tip_balance]
    ELSE LET asset == assets[i]
             f == FindFunds(funds, asset.info.id)
             b == Position([at \in DOMAIN tip_balance |-> tip_balance[at].info = asset.info])
         IN  IF asset.info.native /\ f = 0
             THEN [res |-> Error("TipDepositMissingAsset", <<asset>>),
                   tip_balance |-> tip_balance]
             ELSE IF asset.info.native /\ funds[f].amount # asset.amount
             THEN [res |-> Error("InvalidTipDeposit", <<funds[f].amount, asset>>),
                   tip_balance |-> tip_balance]
             ELSE IF ~asset.info.native /\ allowance # asset.amount
             THEN [res |-> Error("InvalidTipDeposit", <<allowance, asset>>),
                   tip_balance |-> tip_balance]
             ELSE IF b = 0
             THEN TipLoop(Append(tip_balance, asset), assets, i + 1, funds, allowance)
             ELSE IF tip_balance[b].amount + asset.amount > MaxU128
             THEN [res |-> Error("Overflow", <<"add", tip_balance[b].amount, asset.amount>>),
                   tip_balance |-> tip_balance]
             ELSE TipLoop([tip_balance EXCEPT ![b].amount = @ + asset.amount],
                          assets, i + 1, funds, allowance)

add_bot_tip(sender, assets, funds, allowance) ==
    LET user_config == LoadUserConfig(USER_CONFIG, sender)
        invalid_asset == Position([at \in DOMAIN assets |-> ~is_whitelisted_fee_asset(CONFIG, assets[at].info)])
        done == TipLoop(user_config.tip_balance, assets, 1, funds, allowance)
    IN  IF invalid_asset # 0
        THEN Fail(Error("NonWhitelistedTipAsset", <<assets[invalid_asset].info>>))
        ELSE IF done.res.kind # "Ok" THEN Fail(done.res)
        ELSE Outcome(Ok, CONFIG,
                     [USER_CONFIG EXCEPT ![sender] =
                         Some([user_config EXCEPT !.tip_balance = done.tip_balance])],
                     USER_DCA, <<>>)

----------------------------------------------------------------------------
(* update_config, update_user_config *)

\* update_config without the test of the sender
update_config_by_anyone(sender, max_hops, whitelisted_fee_assets, whitelisted_tokens, max_spread) ==
    IF FALSE THEN Fail(Error("Unauthorized", <<>>))
    ELSE Outcome(Ok,
                 [CONFIG EXCEPT
                    !.max_hops = unwrap_or(max_hops, @),
                    !.whitelisted_fee_assets = unwrap_or(whitelisted_fee_assets, @),
                    !.whitelisted_tokens = unwrap_or(whitelisted_tokens, @),
                    !.max_spread = unwrap_or(max_spread, @)],
                 USER_CONFIG, USER_DCA, <<>>)
update_config(sender, max_hops, whitelisted_fee_assets, whitelisted_tokens, max_spread) ==
    IF sender # Owner THEN Fail(Error("Unauthorized", <<>>))
    ELSE Outcome(Ok,
                 [CONFIG EXCEPT
                    !.max_hops = unwrap_or(max_hops, @),
                    !.whitelisted_fee_assets = unwrap_or(whitelisted_fee_assets, @),
                    !.whitelisted_tokens = unwrap_or(whitelisted_tokens, @),
                    !.max_spread = unwrap_or(max_spread, @)],
                 USER_CONFIG, USER_DCA, <<>>)

\* update_user_config keeping an override when none is supplied
update_user_config_keeping(sender, max_hops, max_spread) ==
    LET config == LoadUserConfig(USER_CONFIG, sender)
        new_config == [config EXCEPT !.max_hops = IF max_hops = None THEN @ ELSE max_hops,
                                      !.max_spread = IF max_spread = None THEN @ ELSE max_spread]
    IN  Outcome(Ok, CONFIG, [USER_CONFIG EXCEPT ![sender] = Some(new_config)],
                USER_DCA, <<>>)

update_user_config(sender, max_hops, max_spread) ==
    LET config == LoadUserConfig(USER_CONFIG, sender)
        new_config == [config EXCEPT !.max_hops = max_hops, !.max_spread = max_spread]
    IN  Outcome(Ok, CONFIG, [USER_CONFIG EXCEPT ![sender] = Some(new_config)],
                USER_DCA, <<>>)

----------------------------------------------------------------------------
(* modify_dca_order *)

\* lines 105-113 and 147-156: the amounts of the orders funded by a token
RECURSIVE TotalAllowance(_, _, _)
TotalAllowance(orders, token, i) ==
    IF i > Len(orders) THEN 0
    ELSE (IF orders[i].initial_asset.info = token
          THEN orders[i].initial_asset.amount ELSE 0)
         + TotalAllowance(orders, token, i + 1)

\* the allowance test of lines 115-119 and 158-162, with Uint128 additions
\* that abort the call when they overflow
AllowanceCheck(orders, token, extra, allowance) ==
    LET total_allowance == TotalAllowance(orders, token, 1)
    IN  IF total_allowance > MaxU128 \/ total_allowance + extra > MaxU128
        THEN Error("Panic", <<"add">>)
        ELSE IF total_allowance + extra > allowance
        THEN Error("InvalidTokenDeposit", <<>>)
        ELSE Ok

\* modify_dca_order without the test of lines 87-90
modify_dca_order_any_target(sender, id, new_initial_asset, new_target_asset, new_interval, new_dca_amount, new_first_purchase, funds, allowance) ==
    LET orders == LoadOrders(USER_DCA, sender)
        order_position == Position([at \in DOMAIN orders |-> orders[at].id = id])
    IN  IF order_position = 0 THEN Fail(Error("NonexistentDca", <<>>))
        ELSE
        LET order == orders[order_position]
            should_refund == order.initial_asset.amount > new_initial_asset.amount
            asset_difference ==
                Asset(new_initial_asset.info,
                      IF should_refund
                      THEN order.initial_asset.amount - new_initial_asset.amount
                      ELSE new_initial_asset.amount - order.initial_asset.amount)
            same == order.initial_asset.info = new_initial_asset.info
            funded ==
                IF same /\ should_refund THEN Ok
                ELSE LET due == IF same THEN asset_difference ELSE new_initial_asset
                     IN  IF due.info.native
                         THEN IF assert_sent_native_token_balance(due, funds) THEN Ok
                              ELSE Error("NativeBalanceMismatch", <<>>)
                         ELSE AllowanceCheck(orders, due.info, due.amount, allowance)
            messages ==
                IF same
                THEN IF should_refund /\ new_initial_asset.info.native
                     THEN <<BankSend(sender, new_initial_asset.info.id,
                                     asset_difference.amount)>>
                     ELSE <<>>
                ELSE IF order.initial_asset.info.native
                     THEN <<BankSend(sender, order.initial_asset.info.id,
                                     order.initial_asset.amount)>>
                     ELSE <<>>
            new_order == [order EXCEPT
                            !.initial_asset = new_initial_asset,
                            !.target_asset = new_target_asset,
                            !.interval = new_interval,
                            !.dca_amount = new_dca_amount,
                            !.last_purchase = unwrap_or(new_first_purchase, @)]
        IN  IF funded.kind # "Ok" THEN Fail(funded)
            ELSE Outcome(Ok, CONFIG, USER_CONFIG,
                         [USER_DCA EXCEPT ![sender] =
                             Some([orders EXCEPT ![order_position] = new_order])],
                         messages)

\* modify_dca_order without the funding test of lines 92-121
modify_dca_order_unfunded_increase(sender, id, new_initial_asset, new_target_asset, new_interval, new_dca_amount, new_first_purchase, funds, allowance) ==
    LET orders == LoadOrders(USER_DCA, sender)
        order_position == Position([at \in DOMAIN orders |-> orders[at].id = id])
    IN  IF order_position = 0 THEN Fail(Error("NonexistentDca", <<>>))
        ELSE
        LET order == orders[order_position]
            should_refund == order.initial_asset.amount > new_initial_asset.amount
            asset_difference ==
                Asset(new_initial_asset.info,
                      IF should_refund
                      THEN order.initial_asset.amount - new_initial_asset.amount
                      ELSE new_initial_asset.amount - order.initial_asset.amount)
            same == order.initial_asset.info = new_initial_asset.info
            funded ==
                IF same THEN Ok
                ELSE LET due == IF same THEN asset_difference ELSE new_initial_asset
                     IN  IF due.info.native
                         THEN IF assert_sent_native_token_balance(due, funds) THEN Ok
                              ELSE Error("NativeBalanceMismatch", <<>>)
                         ELSE AllowanceCheck(orders, due.info, due.amount, allowance)
            messages ==
                IF same
                THEN IF should_refund /\ new_initial_asset.info.native
                     THEN <<BankSend(sender, new_initial_asset.info.id,
                                     asset_difference.amount)>>
                     ELSE <<>>
                ELSE IF order.initial_asset.info.native
                     THEN <<BankSend(sender, order.initial_asset.info.id,
                                     order.initial_asset.amount)>>
                     ELSE <<>>
            new_order == [order EXCEPT
                            !.initial_asset = new_initial_asset,
                            !.target_asset = new_target_asset,
                            !.interval = new_interval,
                            !.dca_amount = new_dca_amount,
                            !.last_purchase = unwrap_or(new_first_purchase, @)]
        IN  IF new_initial_asset.info = new_target_asset
            THEN Fail(Error("DuplicateAsset", <<>>))
            ELSE IF funded.kind # "Ok" THEN Fail(funded)
            ELSE Outcome(Ok, CONFIG, USER_CONFIG,
                         [USER_DCA EXCEPT ![sender] =
                             Some([orders EXCEPT ![order_position] = new_order])],
                         messages)

\* modify_dca_order refunding the whole old amount when the amount decreases
modify_dca_order_refund_all(sender, id, new_initial_asset, new_target_asset, new_interval, new_dca_amount, new_first_purchase, funds, allowance) ==
    LET orders == LoadOrders(USER_DCA, sender)
        order_position == Position([at \in DOMAIN orders |-> orders[at].id = id])
    IN  IF order_position = 0 THEN Fail(Error("NonexistentDca", <<>>))
        ELSE
        LET order == orders[order_position]
            should_refund == order.initial_asset.amount > new_initial_asset.amount
            asset_difference ==
                Asset(new_initial_asset.info,
                      IF should_refund
                      THEN order.initial_asset.amount - new_initial_asset.amount
                      ELSE new_initial_asset.amount - order.initial_asset.amount)
            same == order.initial_asset.info = new_initial_asset.info
            funded ==
                IF same /\ should_refund THEN Ok
                ELSE LET due == IF same THEN asset_difference ELSE new_initial_asset
                     IN  IF due.info.native
                         THEN IF assert_sent_native_token_balance(due, funds) THEN Ok
                              ELSE Error("NativeBalanceMismatch", <<>>)
                         ELSE AllowanceCheck(orders, due.info, due.amount, allowance)
            messages ==
                IF same
                THEN IF should_refund /\ new_initial_asset.info.native
                     THEN <<BankSend(sender, new_initial_asset.info.id,
                                     order.initial_asset.amount)>>
                     ELSE <<>>
                ELSE IF order.initial_asset.info.native
                     THEN <<BankSend(sender, order.initial_asset.info.id,
                                     order.initial_asset.amount)>>
                     ELSE <<>>
            new_order == [order EXCEPT
                            !.initial_asset = new_initial_asset,
                            !.target_asset = new_target_asset,
                            !.interval = new_interval,
                            !.dca_amount = new_dca_amount,
                            !.last_purchase = unwrap_or(new_first_purchase, @)]
        IN  IF new_initial_asset.info = new_target_asset
            THEN Fail(Error("DuplicateAsset", <<>>))
            ELSE IF funded.kind # "Ok" THEN Fail(funded)
            ELSE Outcome(Ok, CONFIG, USER_CONFIG,
                         [USER_DCA EXCEPT ![sender] =
                             Some([orders EXCEPT ![order_position] = new_order])],
                         messages)

\* modify_dca_order settling every change of the amount by the difference
modify_dca_order_by_delta(sender, id, new_initial_asset, new_target_asset, new_interval, new_dca_amount, new_first_purchase, funds, allowance) ==
    LET orders == LoadOrders(USER_DCA, sender)
        order_position == Position([at \in DOMAIN orders |-> orders[at].id = id])
    IN  IF order_position = 0 THEN Fail(Error("NonexistentDca", <<>>))
        ELSE
        LET order == orders[order_position]
            should_refund == order.initial_asset.amount > new_initial_asset.amount
            asset_difference ==
                Asset(new_initial_asset.info,
                      IF should_refund
                      THEN order.initial_asset.amount - new_initial_asset.amount
                      ELSE new_initial_asset.amount - order.initial_asset.amount)
            same == TRUE
            funded ==
                IF same /\ should_refund THEN Ok
                ELSE LET due == IF same THEN asset_difference ELSE new_initial_asset
                     IN  IF due.info.native
                         THEN IF assert_sent_native_token_balance(due, funds) THEN Ok
                              ELSE Error("NativeBalanceMismatch", <<>>)
                         ELSE AllowanceCheck(orders, due.info, due.amount, allowance)
            messages ==
                IF same
                THEN IF should_refund /\ new_initial_asset.info.native
                     THEN <<BankSend(sender, new_initial_asset.info.id,
                                     asset_difference.amount)>>
                     ELSE <<>>
                ELSE IF order.initial_asset.info.native
                     THEN <<BankSend(sender, order.initial_asset.info.id,
                                     order.initial_asset.amount)>>
                     ELSE <<>>
            new_order == [order EXCEPT
                            !.initial_asset = new_initial_asset,
                            !.target_asset = new_target_asset,
                            !.interval = new_interval,
                            !.dca_amount = new_dca_amount,
                            !.last_purchase = unwrap_or(new_first_purchase, @)]
        IN  IF new_initial_asset.info = new_target_asset
            THEN Fail(Error("DuplicateAsset", <<>>))
            ELSE IF funded.kind # "Ok" THEN Fail(funded)
            ELSE Outcome(Ok, CONFIG, USER_CONFIG,
                         [USER_DCA EXCEPT ![sender] =
                             Some([orders EXCEPT ![order_position] = new_order])],
                         messages)

\* modify_dca_order resetting last_purchase when no new_first_purchase is given
modify_dca_order_reset_purchase(sender, id, new_initial_asset, new_target_asset, new_interval, new_dca_amount, new_first_purchase, funds, allowance) ==
    LET orders == LoadOrders(USER_DCA, sender)
        order_position == Position([at \in DOMAIN orders |-> orders[at].id = id])
    IN  IF order_position = 0 THEN Fail(Error("NonexistentDca", <<>>))
        ELSE
        LET order == orders[order_position]
            should_refund == order.initial_asset.amount > new_initial_asset.amount
            asset_difference ==
                Asset(new_initial_asset.info,
                      IF should_refund
                      THEN order.initial_asset.amount - new_initial_asset.amount
                      ELSE new_initial_asset.amount - order.initial_asset.amount)
            same == order.initial_asset.info = new_initial_asset.info
            funded ==
                IF same /\ should_refund THEN Ok
                ELSE LET due == IF same THEN asset_difference ELSE new_initial_asset
                     IN  IF due.info.native
                         THEN IF assert_sent_native_token_balance(due, funds) THEN Ok
                              ELSE Error("NativeBalanceMismatch", <<>>)
                         ELSE AllowanceCheck(orders, due.info, due.amount, allowance)
            messages ==
                IF same
                THEN IF should_refund /\ new_initial_asset.info.native
                     THEN <<BankSend(sender, new_initial_asset.info.id,
                                     asset_difference.amount)>>
                     ELSE <<>>
                ELSE IF order.initial_asset.info.native
                     THEN <<BankSend(sender, order.initial_asset.info.id,
                                     order.initial_asset.amount)>>
                     ELSE <<>>
            new_order == [order EXCEPT
                            !.initial_asset = new_initial_asset,
                            !.target_asset = new_target_asset,
                            !.interval = new_interval,
                            !.dca_amount = new_dca_amount,
                            !.last_purchase = unwrap_or(new_first_purchase, 0)]
        IN  IF new_initial_asset.info = new_target_asset
            THEN Fail(Error("DuplicateAsset", <<>>))
            ELSE IF funded.kind # "Ok" THEN Fail(funded)
            ELSE Outcome(Ok, CONFIG, USER_CONFIG,
                         [USER_DCA EXCEPT ![sender] =
                             Some([orders EXCEPT ![order_position] = new_order])],
                         messages)

\* modify_dca_order comparing the two assets before it looks the order up
modify_dca_order_assets_first(sender, id, new_initial_asset, new_target_asset, new_interval, new_dca_amount, new_first_purchase, funds, allowance) ==
    LET orders == LoadOrders(USER_DCA, sender)
        order_position == Position([at \in DOMAIN orders |-> orders[at].id = id])
    IN  IF new_initial_asset.info = new_target_asset
        THEN Fail(Error("DuplicateAsset", <<>>))
        ELSE IF order_position = 0 THEN Fail(Error("NonexistentDca", <<>>))
        ELSE
        LET order == orders[order_position]
            should_refund == order.initial_asset.amount > new_initial_asset.amount
            asset_difference ==
                Asset(new_initial_asset.info,
                      IF should_refund
                      THEN order.initial_asset.amount - new_initial_asset.amount
                      ELSE new_initial_asset.amount - order.initial_asset.amount)
            same == order.initial_asset.info = new_initial_asset.info
            funded ==
                IF same /\ should_refund THEN Ok
                ELSE LET due == IF same THEN asset_difference ELSE new_initial_asset
                     IN  IF due.info.native
                         THEN IF assert_sent_native_token_balance(due, funds) THEN Ok
                              ELSE Error("NativeBalanceMismatch", <<>>)
                         ELSE AllowanceCheck(orders, due.info, due.amount, allowance)
            messages ==
                IF same
                THEN IF should_refund /\ new_initial_asset.info.native
                     THEN <<BankSend(sender, new_initial_asset.info.id,
                                     asset_difference.amount)>>
                     ELSE <<>>
                ELSE IF order.initial_asset.info.native
                     THEN <<BankSend(sender, order.initial_asset.info.id,
                                     order.initial_asset.amount)>>
                     ELSE <<>>
            new_order == [order EXCEPT
                            !.initial_asset = new_initial_asset,
                            !.target_asset = new_target_asset,
                            !.interval = new_interval,
                            !.dca_amount = new_dca_amount,
                            !.last_purchase = unwrap_or(new_first_purchase, @)]
        IN  IF new_initial_asset.info = new_target_asset
            THEN Fail(Error("DuplicateAsset", <<>>))
            ELSE IF funded.kind # "Ok" THEN Fail(funded)
            ELSE Outcome(Ok, CONFIG, USER_CONFIG,
                         [USER_DCA EXCEPT ![sender] =
                             Some([orders EXCEPT ![order_position] = new_order])],
                         messages)

modify_dca_order(sender, id, new_initial_asset, new_target_asset, new_interval, new_dca_amount, new_first_purchase, funds, allowance) ==
    LET orders == LoadOrders(USER_DCA, sender)
        order_position == Position([at \in DOMAIN orders |-> orders[at].id = id])
    IN  IF order_position = 0 THEN Fail(Error("NonexistentDca", <<>>))
        ELSE
        LET order == orders[order_position]
            should_refund == order.initial_asset.amount > new_initial_asset.amount
            asset_difference ==
                Asset(new_initial_asset.info,
                      IF should_refund
                      THEN order.initial_asset.amount - new_initial_asset.amount
                      ELSE new_initial_asset.amount - order.initial_asset.amount)
            same == order.initial_asset.info = new_initial_asset.info
            funded ==
                IF same /\ should_refund THEN Ok
                ELSE LET due == IF same THEN asset_difference ELSE new_initial_asset
                     IN  IF due.info.native
                         THEN IF assert_sent_native_token_balance(due, funds) THEN Ok
                              ELSE Error("NativeBalanceMismatch", <<>>)
                         ELSE AllowanceCheck(orders, due.info, due.amount, allowance)
            messages ==
                IF same
                THEN IF should_refund /\ new_initial_asset.info.native
                     THEN <<BankSend(sender, new_initial_asset.info.id,
                                     asset_difference.amount)>>
                     ELSE <<>>
                ELSE IF order.initial_asset.info.native
                     THEN <<BankSend(sender, order.initial_asset.info.id,
                                     order.initial_asset.amount)>>
                     ELSE <<>>
            new_order == [order EXCEPT
                            !.initial_asset = new_initial_asset,
                            !.target_asset = new_target_asset,
                            !.interval = new_interval,
                            !.dca_amount = new_dca_amount,
                            !.last_purchase = unwrap_or(new_first_purchase, @)]
        IN  IF new_initial_asset.info = new_target_asset
            THEN Fail(Error("DuplicateAsset", <<>>))
            ELSE IF funded.kind # "Ok" THEN Fail(funded)
            ELSE Outcome(Ok, CONFIG, USER_CONFIG,
                         [USER_DCA EXCEPT ![sender] =
                             Some([orders EXCEPT ![order_position] = new_order])],
                         messages)

\* a ModifyDcaOrder applied to the order it finds
Modify(sender, id, m) == modify_dca_order(sender, id, m.initial_asset, m.target_asset, m.interval, m.dca_amount, m.first_purchase, m.funds, m.allowance)

----------------------------------------------------------------------------
(* The state machine *)

\* per order, what was deposited at creation and what its purchases spent
\* (an order changed by ModifyDcaOrder is no longer followed)
Entry(deposited, spent, modified) ==
    [deposited |-> deposited, spent |-> spent, modified |-> modified]

NoOrder ==
    [id |-> 0, initial_asset |-> Asset(NoInfo, 0), target_asset |-> NoInfo,
     interval |-> 0, last_purchase |-> 0, dca_amount |-> 0]

\* the call just executed: the message kind, its Result and its Response; for a
\* call that succeeded also the sender, the beneficiary, the order id, and the
\* order it found as it was before the call
Call(op, sender, user, id, out) ==
    LET idx == IF user \in Users
               THEN Position([at \in DOMAIN LoadOrders(USER_DCA, user) |-> LoadOrders(USER_DCA, user)[at].id = id])
               ELSE 0
    IN  IF out.res.kind = "Ok"
        THEN [op |-> op, sender |-> sender, user |-> user, id |-> id,
              res |-> out.res, msgs |-> out.msgs,
              order |-> IF idx = 0 THEN NoOrder ELSE USER_DCA[user][1][idx],
              entry |-> IF idx = 0 THEN Entry(0, 0, FALSE) ELSE book[user][idx]]
        ELSE [op |-> op, sender |-> "-", user |-> "-", id |-> 0,
              res |-> out.res, msgs |-> <<>>,
              order |-> NoOrder, entry |-> Entry(0, 0, FALSE)]

Commit(out) ==
    /\ CONFIG' = out.CONFIG
    /\ USER_CONFIG' = out.USER_CONFIG
    /\ USER_DCA' = out.USER_DCA
    /\ UNCHANGED now

\* the native denoms that funds are attached and sent in
Denoms == {"uusd", "uluna"}

\* what the messages of a response send out of the contract in a denom, from
\* message i on: the bank transfers and the funds attached to the swap
RECURSIVE Sent(_, _, _)
Sent(msgs, denom, i) == IF i > Len(msgs) THEN 0 ELSE (IF msgs[i].type \in {"bank", "swap"} /\ msgs[i].asset = Native(denom) THEN msgs[i].amount ELSE 0) + Sent(msgs, denom, i + 1)

\* the chain's bank refuses a transfer of funds the contract does not hold,
\* and the whole call fails with it
Banked(out, funds) ==
    IF /\ out.res.kind = "Ok"
       /\ \E d \in Denoms : held[d] + Attached(funds, d, 1) < Sent(out.msgs, d, 1)
    THEN Fail(Error("InsufficientFunds", <<>>))
    ELSE out

\* the bank's view of a call: a call that succeeds leaves its attached funds
\* with the contract and its messages take funds out; a call that fails moves
\* nothing
Settle(out, funds) ==
    held' = IF out.res.kind = "Ok"
            THEN [d \in Denoms |-> held[d] + Attached(funds, d, 1) - Sent(out.msgs, d, 1)]
            ELSE held

InitConfig ==
    [max_hops |-> 2, max_spread |-> 1,
     whitelisted_fee_assets |-> <<Asset(UUSD, 1)>>,
     whitelisted_tokens |-> <<ULUNA>>,
     factory_addr |-> "factory", router_addr |-> Router]

Init ==
    /\ CONFIG = InitConfig
    /\ USER_CONFIG = [u \in Users |-> None]
    /\ USER_DCA = [u \in Users |-> None]
    /\ now = 0
    /\ book = [u \in Users |-> <<>>]
    /\ last = Call("instantiate", "-", "-", 0, Fail(Ok))
    /\ held = [d \in Denoms |-> 0]

\* In the actions, I is the record of the sets the inputs are drawn from.

CreateDcaOrder(I) ==
    \E sender \in I.senders, c \in I.creates :
        LET out == Banked(create_dca_order(sender, c.initial_asset, c.target_asset,
                                           c.interval, c.dca_amount, c.first_purchase,
                                           c.funds, c.allowance), c.funds)
        IN  /\ Len(LoadOrders(USER_DCA, sender)) < I.capacity
            /\ Commit(out)
            /\ last' = Call("create_dca_order", sender, sender, 0, out)
            /\ Settle(out, c.funds)
            /\ book' = IF out.res.kind = "Ok"
                       THEN [book EXCEPT ![sender] =
                               Append(@, Entry(c.initial_asset.amount, 0, FALSE))]
                       ELSE book

ModifyDcaOrder(I) ==
    \E sender \in I.senders : \E id \in I.ids, m \in I.modifies :
        LET out == Banked(Modify(sender, id, m), m.funds)
            idx == Position([at \in DOMAIN LoadOrders(USER_DCA, sender) |-> LoadOrders(USER_DCA, sender)[at].id = id])
        IN  /\ Commit(out)
            /\ last' = Call("modify_dca_order", sender, sender, id, out)
            /\ Settle(out, m.funds)
            /\ book' = IF out.res.kind = "Ok"
                       THEN [book EXCEPT ![sender][idx] = Entry(0, 0, TRUE)]
                       ELSE book

CancelDcaOrder(I) ==
    \E sender \in I.senders : \E id \in I.ids :
        LET out == Banked(cancel_dca_order(sender, id), <<>>)
            idx == Position([at \in DOMAIN LoadOrders(USER_DCA, sender) |-> LoadOrders(USER_DCA, sender)[at].id = id])
        IN  /\ Commit(out)
            /\ last' = Call("cancel_dca_order", sender, sender, id, out)
            /\ Settle(out, <<>>)
            /\ book' = IF out.res.kind = "Ok"
                       THEN [book EXCEPT ![sender] = Remove(@, idx)]
                       ELSE book

\* the funds a purchase hands to the router: attached to the swap message for a
\* native order, pulled by the TransferFrom before it for a token order
Spent(msgs) ==
    LET swap == msgs[Len(msgs)]
    IN  IF swap.asset # NoInfo THEN swap.amount ELSE msgs[Len(msgs) - 1].amount

PerformDcaPurchase(I) ==
    \E sender \in I.keepers, user \in I.senders :
    \E id \in I.ids, hops \in I.routes,
       fee_redeem \in I.fee_redeems, overflow_checks \in I.builds :
        \E out \in { Banked(perform_dca_purchase(sender, user, id, hops, fee_redeem,
                                               overflow_checks), <<>>) } :
        LET idx == Position([at \in DOMAIN LoadOrders(USER_DCA, user) |-> LoadOrders(USER_DCA, user)[at].id = id])
            entry == book[user][idx]
            spent == IF entry.modified THEN entry
                     ELSE [entry EXCEPT !.spent = @ + Spent(out.msgs)]
        IN  /\ Commit(out)
            /\ last' = Call("perform_dca_purchase", sender, user, id, out)
            /\ Settle(out, <<>>)
            /\ book' = IF out.res.kind # "Ok" THEN book
                       ELSE IF Len(out.USER_DCA[user][1]) < Len(USER_DCA[user][1])
                       THEN [book EXCEPT ![user] = Remove(@, idx)]
                       ELSE [book EXCEPT ![user][idx] = spent]

AddBotTip(I) ==
    \E sender \in I.senders, t \in I.tips :
        LET out == Banked(add_bot_tip(sender, t.assets, t.funds, t.allowance), t.funds)
        IN  /\ Commit(out)
            /\ last' = Call("add_bot_tip", sender, sender, 0, out)
            /\ Settle(out, t.funds)
            /\ UNCHANGED book

Withdraw(I) ==
    \E sender \in I.senders, assets \in I.withdraws :
        LET out == Banked(withdraw(sender, assets), <<>>)
        IN  /\ Commit(out)
            /\ last' = Call("withdraw", sender, sender, 0, out)
            /\ Settle(out, <<>>)
            /\ UNCHANGED book

UpdateConfig(I) ==
    \E sender \in I.config_senders, u \in I.configs :
        LET out == update_config(sender, u.max_hops, u.whitelisted_fee_assets,
                                 u.whitelisted_tokens, u.max_spread)
        IN  /\ Commit(out)
            /\ last' = Call("update_config", sender, "-", 0, out)
            /\ Settle(out, <<>>)
            /\ UNCHANGED book

UpdateUserConfig(I) ==
    \E sender \in I.senders, u \in I.user_configs :
        LET out == update_user_config(sender, u.max_hops, u.max_spread)
        IN  /\ Commit(out)
            /\ last' = Call("update_user_config", sender, sender, 0, out)
            /\ Settle(out, <<>>)
            /\ UNCHANGED book

\* the chain produces the next block
Tick(I) ==
    /\ now < I.horizon
    /\ now' = now + 1
    /\ last' = Call("tick", "-", "-", 0, Fail(Ok))
    /\ UNCHANGED <<CONFIG, USER_CONFIG, USER_DCA, book, held>>

NextOn(I) ==
    \/ CreateDcaOrder(I)
    \/ ModifyDcaOrder(I)
    \/ CancelDcaOrder(I)
    \/ PerformDcaPurchase(I)
    \/ AddBotTip(I)
    \/ Withdraw(I)
    \/ UpdateConfig(I)
    \/ UpdateUserConfig(I)
    \/ Tick(I)

----------------------------------------------------------------------------
(* Inputs of the calls *)

NativeSwap(denom) == [op |-> "native_swap", ask |-> Native(denom)]
AstroSwap(info) == [op |-> "astro_swap", ask |-> info]

CreateMsg(initial_asset, target_asset, interval, dca_amount, first_purchase, funds, allowance) ==
    [initial_asset |-> initial_asset, target_asset |-> target_asset,
     interval |-> interval, dca_amount |-> dca_amount,
     first_purchase |-> first_purchase, funds |-> funds, allowance |-> allowance]
TipMsg(assets, funds, allowance) ==
    [assets |-> assets, funds |-> funds, allowance |-> allowance]
ConfigMsg(max_hops, whitelisted_fee_assets, whitelisted_tokens, max_spread) ==
    [max_hops |-> max_hops, whitelisted_fee_assets |-> whitelisted_fee_assets,
     whitelisted_tokens |-> whitelisted_tokens, max_spread |-> max_spread]
UserConfigMsg(max_hops, max_spread) == [max_hops |-> max_hops, max_spread |-> max_spread]

\* the order lifecycle: create, purchases as time passes, cancel
Lifecycle ==
    [senders |-> {"alice"},
     keepers |-> {"keeper"},
     ids |-> 1..2,
     creates |->
        { CreateMsg(Asset(UUSD, 2), ULUNA, 1, 1, None, <<Coin("uusd", 2)>>, 0) },
     modifies |->
        { CreateMsg(Asset(UUSD, 3), ULUNA, 0, 2, None, <<Coin("uusd", 1)>>, 0) },
     routes |-> { <<AstroSwap(ULUNA)>> },
     fee_redeems |-> { <<>> },
     tips |-> { TipMsg(<<Asset(UUSD, 2)>>, <<>>, 0) },
     withdraws |-> { <<>> },
     config_senders |-> {Owner},
     configs |-> { ConfigMsg(None, None, None, None) },
     user_configs |-> { UserConfigMsg(None, None) },
     builds |-> BOOLEAN,
     capacity |-> MaxOrders,
     horizon |-> MaxTime]

\* an order whose last_purchase + interval does not fit in a u64
Wraparound ==
    [senders |-> {"alice"},
     keepers |-> {"keeper"},
     ids |-> 1..2,
     creates |->
        { CreateMsg(Asset(UUSD, 2), ULUNA, MaxU64, 1, Some(1), <<Coin("uusd", 2)>>, 0) },
     modifies |->
        { CreateMsg(Asset(UUSD, 2), ULUNA, MaxU64, 1, None, <<>>, 0) },
     routes |-> { <<AstroSwap(ULUNA)>> },
     fee_redeems |-> { <<>> },
     tips |-> { TipMsg(<<Asset(UUSD, 2)>>, <<>>, 0) },
     withdraws |-> { <<>> },
     config_senders |-> {Owner},
     configs |-> { ConfigMsg(None, None, None, None) },
     user_configs |-> { UserConfigMsg(None, None) },
     builds |-> BOOLEAN,
     capacity |-> 1,
     horizon |-> MaxTime]

\* the tip ledger: top-ups, withdrawals, and the configuration around them
Tips ==
    [senders |-> {"alice"},
     keepers |-> {"keeper"},
     ids |-> {1},
     creates |->
        { CreateMsg(Asset(UUSD, 2), ULUNA, 0, 2, None, <<Coin("uusd", 2)>>, 0) },
     modifies |->
        { CreateMsg(Asset(UUSD, 2), ULUNA, 0, 2, None, <<>>, 0) },
     routes |-> { <<AstroSwap(ULUNA)>> },
     fee_redeems |-> { <<>>, <<Asset(UUSD, 1)>> },
     tips |-> { TipMsg(<<Asset(UUSD, 2)>>, <<Coin("uusd", 2)>>, 0),
                TipMsg(<<Asset(CW20, 2)>>, <<>>, 2),
                TipMsg(<<Asset(UUSD, 2), Asset(UUSD, 2)>>, <<Coin("uusd", 2)>>, 0) },
     withdraws |-> { <<>>,
                     <<Asset(UUSD, 2)>>,
                     <<Asset(CW20, 2)>>,
                     <<Asset(UUSD, MaxU128)>> },
     config_senders |-> {Owner, "alice"},
     configs |-> { ConfigMsg(None, Some(<<>>), None, None),
                   ConfigMsg(None, Some(<<Asset(UUSD, 2), Asset(CW20, 1)>>), None, None) },
     user_configs |-> { UserConfigMsg(Some(1), Some(2)), UserConfigMsg(None, None) },
     builds |-> {TRUE},
     capacity |-> 1,
     horizon |-> ShortTime]

\* the keeper's call: routes and fee redemptions of every kind, against
\* tips, fee units and hop limits that vary
Purchase ==
    [senders |-> {"alice"},
     keepers |-> {"keeper"},
     ids |-> {1},
     creates |->
        { CreateMsg(Asset(UUSD, 2), ULUNA, 1, 2, None, <<Coin("uusd", 2)>>, 0),
          CreateMsg(Asset(UUSD, 2), ULUNA, MaxU64, 2, Some(1), <<Coin("uusd", 2)>>, 0),
          CreateMsg(Asset(UUSD, 2), ULUNA, 1, 2, None, <<>>, 0) },
     modifies |->
        { CreateMsg(Asset(UUSD, 2), ULUNA, 1, 3, None, <<>>, 0) },
     routes |-> { <<>>,
                  <<AstroSwap(ULUNA)>>,
                  <<AstroSwap(CW20)>>,
                  <<NativeSwap("ukrw"), AstroSwap(ULUNA)>>,
                  <<AstroSwap(ULUNA), AstroSwap(ULUNA)>> },
     fee_redeems |-> { <<>>,
                       <<Asset(UUSD, 1)>>,
                       <<Asset(UUSD, 2)>>,
                       <<Asset(CW20, 1)>>,
                       <<Asset(UUSD, 1), Asset(UUSD, 1)>>,
                       <<Asset(UUSD, MaxU128), Asset(UUSD, MaxU128)>> },
     tips |-> { TipMsg(<<Asset(UUSD, 2)>>, <<Coin("uusd", 2)>>, 0) },
     withdraws |-> { <<Asset(UUSD, 2)>> },
     config_senders |-> {Owner, "alice"},
     configs |-> { ConfigMsg(None, Some(<<Asset(UUSD, 2)>>), None, None),
                   ConfigMsg(Some(1), Some(<<Asset(UUSD, 0)>>), None, None) },
     user_configs |-> { UserConfigMsg(Some(2), None) },
     builds |-> {TRUE},
     capacity |-> 1,
     horizon |-> ShortTime]

\* the order book: creations and modifications of every kind, funded in a
\* native denom or in a token
Book ==
    [senders |-> {"alice"},
     keepers |-> {"keeper"},
     ids |-> 1..2,
     creates |->
        { CreateMsg(Asset(UUSD, 2), ULUNA, 1, 1, None, <<Coin("uusd", 2)>>, 0),
          CreateMsg(Asset(CW20, 2), UUSD, 1, 2, Some(1), <<>>, 2),
          CreateMsg(Asset(UUSD, 2), UUSD, 1, 1, None, <<Coin("uusd", 2)>>, 0),
          CreateMsg(Asset(UUSD, 3), UUSD, 1, 2, None, <<Coin("uusd", 3)>>, 0),
          CreateMsg(Asset(UUSD, 2), ULUNA, 1, 3, None, <<Coin("uusd", 2)>>, 0),
          CreateMsg(Asset(UUSD, 2), ULUNA, 1, 0, None, <<Coin("uusd", 2)>>, 0),
          CreateMsg(Asset(UUSD, 3), ULUNA, 1, 2, None, <<Coin("uusd", 3)>>, 0),
          CreateMsg(Asset(UUSD, 2), ULUNA, 1, 1, None, <<>>, 0),
          CreateMsg(Asset(UUSD, 2), ULUNA, 1, 1, None, <<Coin("uusd", 3)>>, 0),
          CreateMsg(Asset(UUSD, 2), ULUNA, 1, 1, None, <<Coin("uluna", 2)>>, 0),
          CreateMsg(Asset(CW20, 2), UUSD, 1, 2, None, <<>>, 3),
          CreateMsg(Asset(CW20, 2), UUSD, 1, 2, None, <<>>, 1) },
     modifies |->
        { CreateMsg(Asset(UUSD, 3), ULUNA, 2, 3, None, <<Coin("uusd", 1)>>, 0),
          CreateMsg(Asset(UUSD, 3), ULUNA, 2, 3, None, <<>>, 0),
          CreateMsg(Asset(UUSD, 3), ULUNA, 2, 3, None, <<Coin("uusd", 3)>>, 0),
          CreateMsg(Asset(UUSD, 1), ULUNA, 1, 1, Some(2), <<>>, 0),
          CreateMsg(Asset(CW20, 3), UUSD, 1, 3, None, <<>>, 3),
          CreateMsg(Asset(CW20, 3), UUSD, 1, 3, None, <<>>, 2),
          CreateMsg(Asset(UUSD, 1), CW20, 1, 1, None, <<>>, 0),
          CreateMsg(Asset(CW20, 1), UUSD, 1, 1, None, <<>>, 1),
          CreateMsg(Asset(UUSD, 2), UUSD, 1, 1, None, <<>>, 0) },
     routes |-> { <<AstroSwap(ULUNA)>> },
     fee_redeems |-> { <<>> },
     tips |-> { TipMsg(<<Asset(UUSD, 2)>>, <<>>, 0) },
     withdraws |-> { <<Asset(UUSD, 1)>> },
     config_senders |-> {Owner},
     configs |-> { ConfigMsg(None, None, None, None) },
     user_configs |-> { UserConfigMsg(None, None) },
     builds |-> {TRUE},
     capacity |-> 2,
     horizon |-> ShortTime]

\* the keeper at work: native and token orders side by side, tips in a native
\* denom and in a token, fees redeemed in one or both
Keeper ==
    [senders |-> {"alice"},
     keepers |-> {"keeper"},
     ids |-> 1..2,
     creates |->
        { CreateMsg(Asset(UUSD, 2), ULUNA, 1, 1, None, <<Coin("uusd", 2)>>, 0),
          CreateMsg(Asset(CW20, 2), ULUNA, 1, 1, None, <<>>, 2) },
     modifies |->
        { CreateMsg(Asset(UUSD, 2), UUSD, 1, 1, None, <<>>, 0) },
     routes |-> { <<AstroSwap(ULUNA), AstroSwap(ULUNA)>> },
     fee_redeems |-> { <<>>,
                       <<Asset(UUSD, 1), Asset(CW20, 1)>>,
                       <<Asset(UUSD, 1), Asset(UUSD, 1)>> },
     tips |-> { TipMsg(<<Asset(UUSD, 2), Asset(CW20, 1)>>, <<Coin("uusd", 2)>>, 1) },
     withdraws |-> { <<Asset(ULUNA, 1)>> },
     config_senders |-> {Owner},
     configs |-> { ConfigMsg(None, Some(<<Asset(UUSD, 1), Asset(CW20, 1)>>), None, None) },
     user_configs |-> { UserConfigMsg(None, Some(2)) },
     builds |-> {TRUE},
     capacity |-> 2,
     horizon |-> ShortTime]

\* the two configurations: updates of every field by the owner and by another
\* sender, overrides set and cleared by a user who holds tips and an order
Preferences ==
    [senders |-> {"alice"},
     keepers |-> {"keeper"},
     ids |-> {1},
     creates |->
        { CreateMsg(Asset(UUSD, 2), ULUNA, 1, 2, None, <<Coin("uusd", 2)>>, 0) },
     modifies |->
        { CreateMsg(Asset(UUSD, 2), UUSD, 1, 2, None, <<>>, 0) },
     routes |-> { <<AstroSwap(ULUNA)>> },
     fee_redeems |-> { <<Asset(UUSD, 1)>> },
     tips |-> { TipMsg(<<Asset(UUSD, 2)>>, <<Coin("uusd", 2)>>, 0) },
     withdraws |-> { <<Asset(UUSD, 1)>> },
     config_senders |-> {Owner, "alice"},
     configs |-> { ConfigMsg(None, Some(<<Asset(UUSD, 1), Asset(CW20, 1)>>), None, None),
                   ConfigMsg(Some(1), None, Some(<<CW20>>), Some(2)),
                   ConfigMsg(None, None, None, None) },
     user_configs |-> { UserConfigMsg(Some(1), Some(2)),
                        UserConfigMsg(None, Some(1)),
                        UserConfigMsg(None, None) },
     builds |-> {TRUE},
     capacity |-> 1,
     horizon |-> ShortTime]

\* two users side by side, one of them also the keeper of the other's orders
Isolation ==
    [senders |-> {"alice", "bob"},
     keepers |-> {"bob"},
     ids |-> {1},
     creates |->
        { CreateMsg(Asset(UUSD, 2), ULUNA, 0, 1, None, <<Coin("uusd", 2)>>, 0) },
     modifies |->
        { CreateMsg(Asset(UUSD, 2), ULUNA, 0, 1, None, <<>>, 0) },
     routes |-> { <<AstroSwap(ULUNA), AstroSwap(ULUNA)>> },
     fee_redeems |-> { <<Asset(UUSD, 2)>> },
     tips |-> { TipMsg(<<Asset(UUSD, 4)>>, <<Coin("uusd", 4)>>, 0) },
     withdraws |-> { <<Asset(ULUNA, 1)>> },
     config_senders |-> {Owner},
     configs |-> { ConfigMsg(None, None, None, None) },
     user_configs |-> { UserConfigMsg(None, None) },
     builds |-> {TRUE},
     capacity |-> 1,
     horizon |-> ShortTime]

\* orders left to the keeper: one that takes two purchases an interval apart
\* and one that a single purchase exhausts
Exhaustion ==
    [senders |-> {"alice"},
     keepers |-> {"keeper"},
     ids |-> 1..MaxU64,
     creates |->
        { CreateMsg(Asset(UUSD, 2), ULUNA, 1, 1, None, <<Coin("uusd", 2)>>, 0),
          CreateMsg(Asset(UUSD, 2), ULUNA, 0, 2, None, <<Coin("uusd", 2)>>, 0) },
     modifies |->
        { CreateMsg(Asset(UUSD, 1), ULUNA, 1, 1, None, <<>>, 0) },
     routes |-> { <<AstroSwap(ULUNA)>>, <<AstroSwap(CW20)>> },
     fee_redeems |-> { <<>> },
     tips |-> { TipMsg(<<Asset(UUSD, 2)>>, <<>>, 0) },
     withdraws |-> { <<Asset(UUSD, 1)>> },
     config_senders |-> {Owner},
     configs |-> { ConfigMsg(None, None, None, None) },
     user_configs |-> { UserConfigMsg(None, None) },
     builds |-> {TRUE},
     capacity |-> 1,
     horizon |-> MaxTime]

\* routes of every length against the global and the user's hop limit, with
\* middle hops on and off the whitelist
Routes ==
    [senders |-> {"alice"},
     keepers |-> {"keeper"},
     ids |-> {1},
     creates |->
        { CreateMsg(Asset(UUSD, 2), CW20, 0, 1, None, <<Coin("uusd", 2)>>, 0) },
     modifies |->
        { CreateMsg(Asset(UUSD, 2), ULUNA, 0, 1, None, <<>>, 0) },
     routes |-> { <<>>,
                  <<AstroSwap(CW20)>>,
                  <<AstroSwap(ULUNA), AstroSwap(CW20)>>,
                  <<NativeSwap("ukrw"), AstroSwap(CW20), AstroSwap(ULUNA)>> },
     fee_redeems |-> { <<>> },
     tips |-> { TipMsg(<<Asset(UUSD, 2)>>, <<>>, 0) },
     withdraws |-> { <<Asset(UUSD, 1)>> },
     config_senders |-> {Owner},
     configs |-> { ConfigMsg(Some(1), None, None, None),
                   ConfigMsg(None, None, Some(<<CW20>>), None) },
     user_configs |-> { UserConfigMsg(Some(3), None), UserConfigMsg(Some(1), None),
                        UserConfigMsg(None, None) },
     builds |-> {TRUE},
     capacity |-> 1,
     horizon |-> ShortTime]

\* fees redeemed against a tip balance: fee units changed by the owner, tips
\* topped up, and an order modified to a dca_amount above what it holds
Fees ==
    [senders |-> {"alice"},
     keepers |-> {"keeper"},
     ids |-> {1},
     creates |->
        { CreateMsg(Asset(UUSD, 2), ULUNA, 0, 1, None, <<Coin("uusd", 2)>>, 0) },
     modifies |->
        { CreateMsg(Asset(UUSD, 1), ULUNA, 0, 2, None, <<>>, 0) },
     routes |-> { <<AstroSwap(ULUNA)>>, <<AstroSwap(CW20)>> },
     fee_redeems |-> { <<Asset(UUSD, 1)>>, <<Asset(UUSD, 2)>>, <<Asset(CW20, 1)>> },
     tips |-> { TipMsg(<<Asset(UUSD, 1)>>, <<Coin("uusd", 1)>>, 0) },
     withdraws |-> { <<Asset(ULUNA, 1)>> },
     config_senders |-> {Owner},
     configs |-> { ConfigMsg(None, Some(<<Asset(UUSD, 2)>>), None, None),
                   ConfigMsg(None, Some(<<Asset(UUSD, 0)>>), None, None),
                   ConfigMsg(None, Some(<<Asset(UUSD, 1), Asset(CW20, 1)>>), None, None) },
     user_configs |-> { UserConfigMsg(None, None) },
     builds |-> {TRUE},
     capacity |-> 1,
     horizon |-> ShortTime]

Next == NextOn(Lifecycle)
NextWraparound == NextOn(Wraparound)
NextTips == NextOn(Tips)
NextPurchase == NextOn(Purchase)
NextBook == NextOn(Book)
NextKeeper == NextOn(Keeper)
NextPreferences == NextOn(Preferences)
NextIsolation == NextOn(Isolation)
NextExhaustion == NextOn(Exhaustion)
NextRoutes == NextOn(Routes)
NextFees == NextOn(Fees)

Spec == Init /\ [][Next]_vars
SpecWraparound == Init /\ [][NextWraparound]_vars
SpecTips == Init /\ [][NextTips]_vars
SpecPurchase == Init /\ [][NextPurchase]_vars
SpecBook == Init /\ [][NextBook]_vars
SpecKeeper == Init /\ [][NextKeeper]_vars
SpecPreferences == Init /\ [][NextPreferences]_vars
SpecIsolation == Init /\ [][NextIsolation]_vars
SpecRoutes == Init /\ [][NextRoutes]_vars
SpecFees == Init /\ [][NextFees]_vars

\* the tests of the closure of USER_DCA.update (lines 188-211) on the first
\* order of the user with the id: it is due, the route ends in its target and
\* it holds a dca_amount
Eligible(user, id, hops) ==
    \E at \in DOMAIN LoadOrders(USER_DCA, user) :
        LET order == LoadOrders(USER_DCA, user)[at]
        IN  /\ order.id = id
            /\ \A before \in 1..(at - 1) : LoadOrders(USER_DCA, user)[before].id # id
            /\ order.last_purchase + order.interval <= now
            /\ hops # <<>>
            /\ get_target_asset_info(hops[Len(hops)]) = order.target_asset
            /\ order.initial_asset.amount >= order.dca_amount

\* the keeper's purchase that goes through
KeeperPurchase ==
    \E sender \in Exhaustion.keepers, user \in Exhaustion.senders :
    \E id \in Exhaustion.ids, hops \in Exhaustion.routes :
        /\ Eligible(user, id, hops)
        /\ PerformDcaPurchase([Exhaustion EXCEPT !.keepers = {sender}, !.senders = {user},
                                                 !.ids = {id}, !.routes = {hops}])
        /\ last'.res.kind = "Ok"

\* blocks keep coming, and a keeper whose purchase would go through makes it
SpecExhaustion ==
    /\ Init
    /\ [][NextExhaustion]_vars
    /\ WF_vars(Tick(Exhaustion))
    /\ WF_vars(KeeperPurchase)

----------------------------------------------------------------------------
(* Properties of the order lifecycle, checked under Spec *)

Orders(u) == LoadOrders(USER_DCA, u)

\* C1: when an order funded in a native denom that was never modified is
\* cancelled, the funds its purchases attached to their swap messages plus the
\* amount of the cancel's bank message equal the amount deposited at creation.
Conservation ==
    (/\ last.op = "cancel_dca_order"
     /\ last.res.kind = "Ok"
     /\ last.order.initial_asset.info.native
     /\ ~last.entry.modified)
    => /\ Len(last.msgs) = 1
       /\ last.msgs[1].type = "bank"
       /\ last.msgs[1].to = last.sender
       /\ last.msgs[1].asset = last.order.initial_asset.info
       /\ last.entry.spent + last.msgs[1].amount = last.entry.deposited

\* an order is cancelled after a purchase, with part of the deposit left
ConservationWitness ==
    /\ last.op = "cancel_dca_order"
    /\ last.res.kind = "Ok"
    /\ last.order.initial_asset.info.native
    /\ ~last.entry.modified
    /\ last.entry.spent > 0
    /\ last.msgs[1].amount > 0

\* C2: after a successful purchase on an order with interval > 0, a second
\* purchase on the same (user, id) in the same block does not succeed.
NoDoublePurchase ==
    [][(/\ last.op = "perform_dca_purchase"
        /\ last.res.kind = "Ok"
        /\ last.order.interval > 0
        /\ last'.op = "perform_dca_purchase"
        /\ now' = now)
       => ~(/\ last'.res.kind = "Ok"
            /\ last'.user = last.user
            /\ last'.id = last.id)]_vars

\* the errors of the validation steps that do not look at the order
RouteAndFeeErrors ==
    {"EmptyHopRoute", "MaxHopsAssertion", "InvalidHopRoute", "NonWhitelistedTipAsset",
     "IndivisibleDeposit", "DivideByZero", "RedeemTipTooLarge", "InsufficientTipBalance"}

\* C3: a purchase on an order with interval I and last_purchase T fails with
\* PurchaseTooEarly at a block time before T + I, and at or after T + I it
\* succeeds and sets last_purchase to the block time (unless the call fails
\* one of the other preconditions).
IntervalMonotonicity ==
    \A user \in Wraparound.senders : \A idx \in 1..Len(Orders(user)) :
    \A sender \in Wraparound.keepers, hops \in Wraparound.routes,
       fee_redeem \in Wraparound.fee_redeems, overflow_checks \in BOOLEAN :
        LET order == Orders(user)[idx]
            out == perform_dca_purchase(sender, user, order.id, hops, fee_redeem,
                                        overflow_checks)
            after == LoadOrders(out.USER_DCA, user)
        IN  (Position([at \in DOMAIN Orders(user) |-> Orders(user)[at].id = order.id]) = idx)
            => IF now < order.last_purchase + order.interval
               THEN out.res.kind \in RouteAndFeeErrors \cup {"PurchaseTooEarly"}
               ELSE \/ out.res.kind \in RouteAndFeeErrors
                                        \cup {"TargetAssetAssertion", "InsufficientBalance"}
                    \/ /\ out.res.kind = "Ok"
                       /\ \/ order.initial_asset.amount = order.dca_amount
                          \/ /\ Len(after) = Len(Orders(user))
                             /\ after[idx].last_purchase = now

\* C5: no two orders stored for the same user have the same id.
UniqueIds ==
    \A u \in Users : \A i, j \in 1..Len(Orders(u)) :
        i # j => Orders(u)[i].id # Orders(u)[j].id

\* C6: right after a purchase that spent the last of an order, a purchase on
\* that id fails with NonexistentDca (unless the call fails an earlier step).
ExhaustionRemoval ==
    (/\ last.op = "perform_dca_purchase"
     /\ last.res.kind = "Ok"
     /\ last.order.initial_asset.amount = last.order.dca_amount)
    => \A sender \in Lifecycle.keepers, hops \in Lifecycle.routes,
          fee_redeem \in Lifecycle.fee_redeems, overflow_checks \in BOOLEAN :
          perform_dca_purchase(sender, last.user, last.id, hops, fee_redeem,
                               overflow_checks).res.kind
             \in RouteAndFeeErrors \cup {"NonexistentDca"}

-----------------------------------------------------------------------------
(* Properties of the tip ledger, checked under SpecTips *)

Settings(uc, u) ==
    LET user_config == LoadUserConfig(uc, u)
    IN  <<user_config.last_id, user_config.max_hops, user_config.max_spread>>

\* C9: a successful Withdraw leaves the caller's last_id, max_hops and
\* max_spread as they were.
WithdrawKeepsSettings ==
    [][(last'.op = "withdraw" /\ last'.res.kind = "Ok")
       => Settings(USER_CONFIG', last'.sender) = Settings(USER_CONFIG, last'.sender)]_vars

\* the amount asked for the asset of entry i over the whole list
RECURSIVE Requested(_, _, _)
Requested(assets, info, i) ==
    IF i > Len(assets) THEN 0
    ELSE (IF assets[i].info = info THEN assets[i].amount ELSE 0)
         + Requested(assets, info, i + 1)

\* every asset of the list has an entry that covers what the list asks of it
Suffices(tip_balance, assets) ==
    \A i \in 1..Len(assets) :
        LET b == Position([at \in DOMAIN tip_balance |-> tip_balance[at].info = assets[i].info])
        IN  b # 0 /\ tip_balance[b].amount >= Requested(assets, assets[i].info, 1)

\* C10: a Withdraw succeeds whenever the caller's tip balances cover the
\* amounts asked for, whatever happened to the configuration since the
\* deposit.
WithdrawAvailable ==
    \A sender \in Tips.senders, assets \in Tips.withdraws :
        Suffices(LoadUserConfig(USER_CONFIG, sender).tip_balance, assets)
        => withdraw(sender, assets).res.kind = "Ok"

-----------------------------------------------------------------------------
(* Properties of the keeper's call, checked under SpecPurchase *)

\* C4: a call that returns an error leaves CONFIG, USER_CONFIG and USER_DCA
\* as they were before it.
NoPartialEffect ==
    [][last'.res.kind # "Ok" => storage' = storage]_vars

NoPartialEffectWitness ==
    /\ last.op = "create_dca_order"
    /\ last.res.kind = "NativeBalanceMismatch"
    /\ LoadUserConfig(USER_CONFIG, "alice").tip_balance # <<>>

\* the hop limit in force for a user
Limit(user) == unwrap_or(LoadUserConfig(USER_CONFIG, user).max_hops, CONFIG.max_hops)

\* the fee-per-hop unit of an asset, 0 when it has none
Unit(info) ==
    LET w == Position([at \in DOMAIN CONFIG.whitelisted_fee_assets |-> CONFIG.whitelisted_fee_assets[at].info = info])
    IN  IF w = 0 THEN 0 ELSE CONFIG.whitelisted_fee_assets[w].amount

\* the fee units a redemption asks for: amount / unit summed over its entries
RECURSIVE Units(_, _)
Units(fee_redeem, i) ==
    IF i > Len(fee_redeem) THEN 0
    ELSE (IF Unit(fee_redeem[i].info) = 0 THEN 0
          ELSE fee_redeem[i].amount \div Unit(fee_redeem[i].info))
         + Units(fee_redeem, i + 1)

\* whether one step of the validation of a purchase fails, each step taken
\* on its own
Fails(step, user, id, hops, fee_redeem) ==
    LET idx == Position([at \in DOMAIN Orders(user) |-> Orders(user)[at].id = id])
        order == Orders(user)[idx]
    IN  CASE step = "EmptyHopRoute" -> hops = <<>>
          [] step = "MaxHopsAssertion" -> Len(hops) > Limit(user)
          [] step = "InvalidHopRoute" ->
                \E i \in 1..(Len(hops) - 1) :
                    ~is_whitelisted_asset(CONFIG, get_target_asset_info(hops[i]))
          [] step = "FeeAsset" ->
                \E i \in 1..Len(fee_redeem) :
                    \/ ~is_whitelisted_fee_asset(CONFIG, fee_redeem[i].info)
                    \/ Unit(fee_redeem[i].info) = 0
                    \/ fee_redeem[i].amount % Unit(fee_redeem[i].info) # 0
          [] step = "RedeemTipTooLarge" -> Units(fee_redeem, 1) > Len(hops)
          [] step = "InsufficientTipBalance" ->
                ~Suffices(LoadUserConfig(USER_CONFIG, user).tip_balance, fee_redeem)
          [] step = "NonexistentDca" -> idx = 0
          [] step = "PurchaseTooEarly" ->
                idx # 0 /\ (order.last_purchase + order.interval) % (MaxU64 + 1) > now
          [] step = "TargetAssetAssertion" ->
                idx # 0 /\ hops # <<>>
                        /\ get_target_asset_info(hops[Len(hops)]) # order.target_asset
          [] step = "InsufficientBalance" ->
                idx # 0 /\ order.dca_amount > order.initial_asset.amount

\* the step an error belongs to
StepOf(kind) ==
    IF kind \in {"NonWhitelistedTipAsset", "DivideByZero", "IndivisibleDeposit"}
    THEN "FeeAsset" ELSE kind

\* the first step of a sequence that fails, "Ok" when none does
RECURSIVE FirstFailure(_, _, _, _, _, _)
FirstFailure(sequence, i, user, id, hops, fee_redeem) ==
    IF i > Len(sequence) THEN "Ok"
    ELSE IF Fails(sequence[i], user, id, hops, fee_redeem) THEN sequence[i]
    ELSE FirstFailure(sequence, i + 1, user, id, hops, fee_redeem)

\* what a purchase returns is the first failure of the sequence, for every
\* call that returns (one that aborts on an addition returns nothing)
Reports(sequence) ==
    \A sender \in Purchase.keepers, user \in Purchase.senders :
    \A id \in Purchase.ids, hops \in Purchase.routes, fee_redeem \in Purchase.fee_redeems,
       overflow_checks \in BOOLEAN :
        LET out == perform_dca_purchase(sender, user, id, hops, fee_redeem,
                                        overflow_checks)
        IN  out.res.kind # "Panic"
            => StepOf(out.res.kind) = FirstFailure(sequence, 1, user, id, hops, fee_redeem)

\* the sequence as documented: the order is looked up and tested before the
\* tips are deducted
Documented ==
    <<"EmptyHopRoute", "MaxHopsAssertion", "InvalidHopRoute", "FeeAsset",
      "RedeemTipTooLarge", "NonexistentDca", "PurchaseTooEarly",
      "TargetAssetAssertion", "InsufficientTipBalance", "InsufficientBalance">>

\* the sequence with the tip deduction ahead of the order lookup
TipsFirst ==
    <<"EmptyHopRoute", "MaxHopsAssertion", "InvalidHopRoute", "FeeAsset",
      "RedeemTipTooLarge", "InsufficientTipBalance", "NonexistentDca",
      "PurchaseTooEarly", "TargetAssetAssertion", "InsufficientBalance">>

\* C8 as stated: a purchase reports the first failing step of the documented
\* sequence, so a call on an id that does not exist whose fee_redeem exceeds
\* the tip balance fails with NonexistentDca.
ReportsDocumented == Reports(Documented)

\* C8: an error a purchase returns is that of the first failing step of the
\* sequence EmptyHopRoute, MaxHopsAssertion, InvalidHopRoute, fee-asset
\* validation, RedeemTipTooLarge, tip deduction (InsufficientTipBalance), order
\* lookup (NonexistentDca), PurchaseTooEarly, TargetAssetAssertion, order
\* deduction (InsufficientBalance); a call on an id that does not exist whose
\* fee_redeem exceeds the tip balance fails with InsufficientTipBalance.
ReportsTipsFirst == Reports(TipsFirst)

ReportsTipsFirstWitness ==
    /\ last.op = "perform_dca_purchase"
    /\ last.res.kind = "InsufficientTipBalance"
    /\ Orders("alice") = <<>>

\* C7: a purchase whose route and fee assets are valid succeeds only if the
\* fee units it redeems are at most len(hops), and one that asks for more
\* fails with RedeemTipTooLarge carrying the units asked for and len(hops).
FeeHopConservation ==
    \A sender \in Purchase.keepers, user \in Purchase.senders :
    \A id \in Purchase.ids, hops \in Purchase.routes, fee_redeem \in Purchase.fee_redeems,
       overflow_checks \in BOOLEAN :
        LET out == perform_dca_purchase(sender, user, id, hops, fee_redeem,
                                        overflow_checks)
            requested == Units(fee_redeem, 1)
        IN  (\A step \in {"EmptyHopRoute", "MaxHopsAssertion", "InvalidHopRoute",
                          "FeeAsset"} : ~Fails(step, user, id, hops, fee_redeem))
            => /\ out.res.kind = "Ok" => requested <= Len(hops)
               /\ requested > Len(hops)
                  => out.res = Error("RedeemTipTooLarge", <<requested, Len(hops)>>)

-----------------------------------------------------------------------------
(* Properties of the single handlers *)


\* the balance a user configuration holds of an asset, 0 when it has no entry
Balance(user_config, info) ==
    LET b == Position([at \in DOMAIN user_config.tip_balance |->
                          user_config.tip_balance[at].info = info])
    IN  IF b = 0 THEN 0 ELSE user_config.tip_balance[b].amount

\* C11: a successful AddBotTip raises the caller's tip balance of each native
\* denom it lists by exactly the amount of that denom attached, whatever the
\* list (also one naming an asset more than once).
TipMatchesAttached ==
    \A sender \in Tips.senders, t \in Tips.tips :
        LET out == add_bot_tip(sender, t.assets, t.funds, t.allowance)
        IN  out.res.kind = "Ok"
            => \A i \in 1..Len(t.assets) :
                  t.assets[i].info.native
                  => Balance(LoadUserConfig(out.USER_CONFIG, sender), t.assets[i].info)
                     = Balance(LoadUserConfig(USER_CONFIG, sender), t.assets[i].info)
                       + Attached(t.funds, t.assets[i].info.id, 1)

\* what a creation leaves behind when it stores nothing for the caller
Untouched(out, sender) ==
    /\ out.res.kind # "Ok"
    /\ out.USER_DCA = USER_DCA
    /\ LoadUserConfig(out.USER_CONFIG, sender).last_id
       = LoadUserConfig(USER_CONFIG, sender).last_id

\* C12 as stated: a CreateDcaOrder whose amount is not a multiple of
\* dca_amount always fails with IndivisibleDeposit, one with dca_amount = 0
\* always with DivideByZero; nothing is stored and last_id stays.
IndivisibleAlways ==
    \A sender \in Book.senders, c \in Book.creates :
        LET out == create_dca_order(sender, c.initial_asset, c.target_asset, c.interval,
                                    c.dca_amount, c.first_purchase, c.funds, c.allowance)
        IN  /\ (c.dca_amount # 0 /\ c.initial_asset.amount % c.dca_amount # 0)
               => out.res.kind = "IndivisibleDeposit" /\ Untouched(out, sender)
            /\ c.dca_amount = 0
               => out.res.kind = "DivideByZero" /\ Untouched(out, sender)

\* C12: a CreateDcaOrder whose amount is not a multiple of dca_amount, or
\* whose dca_amount is 0, always fails, stores nothing and leaves last_id; the
\* error is IndivisibleDeposit, resp. DivideByZero, unless the assets are equal
\* (DuplicateAsset) or dca_amount exceeds the amount (DepositTooSmall), the two
\* tests made before it.
IndivisibleAfterEarlierTests ==
    \A sender \in Book.senders, c \in Book.creates :
        LET out == create_dca_order(sender, c.initial_asset, c.target_asset, c.interval,
                                    c.dca_amount, c.first_purchase, c.funds, c.allowance)
            earlier == IF c.initial_asset.info = c.target_asset THEN "DuplicateAsset"
                       ELSE IF c.dca_amount > c.initial_asset.amount THEN "DepositTooSmall"
                       ELSE "-"
        IN  /\ (c.dca_amount # 0 /\ c.initial_asset.amount % c.dca_amount # 0)
               => /\ Untouched(out, sender)
                  /\ out.res.kind = IF earlier = "-" THEN "IndivisibleDeposit" ELSE earlier
            /\ c.dca_amount = 0
               => /\ Untouched(out, sender)
                  /\ out.res.kind = IF earlier = "-" THEN "DivideByZero" ELSE earlier

IndivisibleWitness ==
    /\ last.op = "create_dca_order"
    /\ last.res.kind = "IndivisibleDeposit"
    /\ Orders("alice") # <<>>

\* the tests create_dca_order makes before it looks at the funding
WellFormed(c) ==
    /\ c.initial_asset.info # c.target_asset
    /\ c.dca_amount # 0
    /\ c.dca_amount <= c.initial_asset.amount
    /\ c.initial_asset.amount % c.dca_amount = 0

\* C13: CreateDcaOrder succeeds only if the caller supplied exactly
\* initial_asset.amount (native: the attached funds of the denom equal it;
\* ledger: the allowance equals it); a well-formed creation funded otherwise
\* fails with NativeBalanceMismatch, resp. InvalidTokenDeposit; a successful
\* creation emits no message.
FundingProof ==
    \A sender \in Book.senders, c \in Book.creates :
        LET out == create_dca_order(sender, c.initial_asset, c.target_asset, c.interval,
                                    c.dca_amount, c.first_purchase, c.funds, c.allowance)
            supplied == IF c.initial_asset.info.native
                        THEN Attached(c.funds, c.initial_asset.info.id, 1)
                        ELSE c.allowance
        IN  /\ out.res.kind = "Ok" => supplied = c.initial_asset.amount /\ out.msgs = <<>>
            /\ (WellFormed(c) /\ supplied # c.initial_asset.amount)
               => out.res.kind = IF c.initial_asset.info.native
                                 THEN "NativeBalanceMismatch" ELSE "InvalidTokenDeposit"

FundingProofWitness ==
    /\ last.op = "create_dca_order"
    /\ last.res.kind = "InvalidTokenDeposit"
    /\ \E i \in DOMAIN Orders("alice") : ~Orders("alice")[i].initial_asset.info.native

\* C14: a successful CreateDcaOrder raises the caller's last_id by one, never
\* past the largest u64 (the call fails with an overflow error instead), and
\* appends after the existing orders exactly one order: its id is the new
\* last_id, its last_purchase is first_purchase or 0, its other fields are the
\* parameters; the existing orders are unchanged.
CreationEffect ==
    \A sender \in Book.senders, c \in Book.creates :
        LET out == create_dca_order(sender, c.initial_asset, c.target_asset, c.interval,
                                    c.dca_amount, c.first_purchase, c.funds, c.allowance)
            before == LoadUserConfig(USER_CONFIG, sender).last_id
            after == LoadUserConfig(out.USER_CONFIG, sender).last_id
            new == [id |-> after, initial_asset |-> c.initial_asset,
                    target_asset |-> c.target_asset, interval |-> c.interval,
                    last_purchase |-> IF c.first_purchase = None THEN 0 ELSE c.first_purchase[1],
                    dca_amount |-> c.dca_amount]
        IN  /\ out.res.kind = "Ok"
               => /\ after = before + 1
                  /\ after <= MaxU64
                  /\ LoadOrders(out.USER_DCA, sender) = Append(LoadOrders(USER_DCA, sender), new)
            /\ before = MaxU64 => out.res.kind # "Ok"
            /\ before = MaxU64 /\ WellFormed(c) /\ c.funds = <<Coin("uusd", c.initial_asset.amount)>>
               => out.res.kind = "Overflow"

CreationEffectWitness ==
    /\ last.op = "create_dca_order"
    /\ last.res.kind = "Overflow"
    /\ LoadUserConfig(USER_CONFIG, "alice").last_id = MaxU64
    /\ Len(Orders("alice")) = 1
    /\ Orders("alice")[1].last_purchase = 1

\* the caller's order a ModifyDcaOrder or CancelDcaOrder of this id acts on
Target(sender, id) == Position([at \in DOMAIN Orders(sender) |-> Orders(sender)[at].id = id])

\* C15: every stored order buys an asset other than the one it spends, whatever
\* creations, modifications and purchases led to it; a CreateDcaOrder, and a
\* ModifyDcaOrder of an order the caller has, that name the same asset on both
\* sides fail with DuplicateAsset.
DistinctAssets ==
    /\ \A u \in Users : \A i \in DOMAIN Orders(u) :
          Orders(u)[i].target_asset # Orders(u)[i].initial_asset.info
    /\ \A sender \in Book.senders, c \in Book.creates :
          c.initial_asset.info = c.target_asset
          => create_dca_order(sender, c.initial_asset, c.target_asset, c.interval,
                              c.dca_amount, c.first_purchase, c.funds, c.allowance).res.kind
             = "DuplicateAsset"
    /\ \A sender \in Book.senders, id \in Book.ids, m \in Book.modifies :
          (m.initial_asset.info = m.target_asset /\ Target(sender, id) # 0)
          => modify_dca_order(sender, id, m.initial_asset, m.target_asset, m.interval,
                              m.dca_amount, m.first_purchase, m.funds, m.allowance).res.kind
             = "DuplicateAsset"

DistinctAssetsWitness ==
    /\ last.op = "modify_dca_order"
    /\ last.res.kind = "DuplicateAsset"
    /\ \E i \in DOMAIN Orders("alice") : book["alice"][i].modified
    /\ \E i \in DOMAIN Orders("alice") : book["alice"][i].spent > 0

\* C16: a successful CancelDcaOrder removes from the caller's orders exactly
\* one order, the one the id finds, and leaves the others as they were and in
\* their order; the response carries exactly one bank transfer to the caller of
\* that order's remaining amount if its initial asset is native, and no message
\* if it is a ledger asset.
CancelEffect ==
    \A sender \in Book.senders, id \in Book.ids :
        LET out == cancel_dca_order(sender, id)
            old == Orders(sender)
            new == LoadOrders(out.USER_DCA, sender)
            idx == Target(sender, id)
        IN  /\ out.res.kind = "Ok" <=> idx # 0
            /\ out.res.kind = "Ok"
               => /\ old[idx].id = id
                  /\ Len(new) = Len(old) - 1
                  /\ \A j \in 1..Len(new) : new[j] = IF j < idx THEN old[j] ELSE old[j + 1]
                  /\ \A u \in Users \ {sender} : out.USER_DCA[u] = USER_DCA[u]
                  /\ out.msgs = IF old[idx].initial_asset.info.native
                                THEN <<BankSend(sender, old[idx].initial_asset.info.id,
                                                old[idx].initial_asset.amount)>>
                                ELSE <<>>

CancelEffectWitness ==
    /\ last.op = "cancel_dca_order"
    /\ last.res.kind = "Ok"
    /\ ~last.order.initial_asset.info.native
    /\ last.msgs = <<>>
    /\ Len(Orders("alice")) = 1

\* C17: a ModifyDcaOrder that keeps the identity of a native order and raises
\* its amount fails with NativeBalanceMismatch unless the funds attached in
\* that denom equal new amount - old amount; with exactly that attached it
\* succeeds and its response carries no message.
IncreaseNeedsDelta ==
    \A sender \in Book.senders, id \in Book.ids, m \in Book.modifies :
        LET idx == Target(sender, id)
            out == Modify(sender, id, m)
        IN  (/\ idx # 0
             /\ Orders(sender)[idx].initial_asset.info.native
             /\ Orders(sender)[idx].initial_asset.info = m.initial_asset.info
             /\ m.initial_asset.amount > Orders(sender)[idx].initial_asset.amount
             /\ m.initial_asset.info # m.target_asset)
            => LET delta == m.initial_asset.amount - Orders(sender)[idx].initial_asset.amount
               IN  IF Attached(m.funds, m.initial_asset.info.id, 1) = delta
                   THEN out.res.kind = "Ok" /\ out.msgs = <<>>
                   ELSE out.res.kind = "NativeBalanceMismatch"

IncreaseNeedsDeltaWitness ==
    /\ last.op = "modify_dca_order"
    /\ last.res.kind = "Ok"
    /\ last.order.initial_asset = Asset(UUSD, 2)
    /\ Orders("alice")[Target("alice", last.id)].initial_asset = Asset(UUSD, 3)
    /\ last.msgs = <<>>

\* C18: a ModifyDcaOrder that keeps the asset identity of an order and lowers
\* its amount stores the new amount; its response carries exactly one bank
\* transfer to the caller of old amount - new amount if the asset is native,
\* and no message if it is a ledger asset.
DecreaseRefundsDelta ==
    \A sender \in Book.senders, id \in Book.ids, m \in Book.modifies :
        LET idx == Target(sender, id)
            out == Modify(sender, id, m)
        IN  (/\ idx # 0
             /\ Orders(sender)[idx].initial_asset.info = m.initial_asset.info
             /\ m.initial_asset.amount < Orders(sender)[idx].initial_asset.amount
             /\ m.initial_asset.info # m.target_asset)
            => /\ out.res.kind = "Ok"
               /\ LoadOrders(out.USER_DCA, sender)[idx].initial_asset = m.initial_asset
               /\ out.msgs = IF m.initial_asset.info.native
                             THEN <<BankSend(sender, m.initial_asset.info.id,
                                             Orders(sender)[idx].initial_asset.amount
                                             - m.initial_asset.amount)>>
                             ELSE <<>>

DecreaseRefundsDeltaWitness ==
    /\ last.op = "modify_dca_order"
    /\ last.res.kind = "Ok"
    /\ last.order.initial_asset = Asset(UUSD, 3)
    /\ Orders("alice")[Target("alice", last.id)].initial_asset = Asset(UUSD, 1)
    /\ last.msgs = <<BankSend("alice", "uusd", 2)>>

\* C19: a ModifyDcaOrder that changes the identity of the initial asset
\* succeeds only if the caller funded the whole new amount (native: the funds
\* attached in the new denom equal it, and then it does succeed; ledger: the
\* allowance is at least the new amount, and is enough when no other order is
\* funded by that token), whichever of the two amounts is larger; its response
\* then carries one bank transfer to the caller of the whole old amount if the
\* old asset is native, and no message otherwise.
IdentityChange ==
    \A sender \in Book.senders, id \in Book.ids, m \in Book.modifies :
        LET idx == Target(sender, id)
            out == Modify(sender, id, m)
        IN  (idx # 0 /\ Orders(sender)[idx].initial_asset.info # m.initial_asset.info)
            => LET old == Orders(sender)[idx].initial_asset
                   supplied == IF m.initial_asset.info.native
                               THEN Attached(m.funds, m.initial_asset.info.id, 1)
                               ELSE m.allowance
                   alone == \A j \in DOMAIN Orders(sender) :
                               Orders(sender)[j].initial_asset.info # m.initial_asset.info
               IN  /\ out.res.kind = "Ok"
                      => /\ IF m.initial_asset.info.native
                            THEN supplied = m.initial_asset.amount
                            ELSE supplied >= m.initial_asset.amount
                         /\ out.msgs = IF old.info.native
                                       THEN <<BankSend(sender, old.info.id, old.amount)>>
                                       ELSE <<>>
                         /\ LoadOrders(out.USER_DCA, sender)[idx].initial_asset = m.initial_asset
                   /\ (/\ m.initial_asset.info # m.target_asset
                       /\ supplied = m.initial_asset.amount
                       /\ m.initial_asset.info.native \/ alone)
                      => out.res.kind = "Ok"

IdentityChangeWitness ==
    /\ last.op = "modify_dca_order"
    /\ last.res.kind = "Ok"
    /\ last.order.initial_asset = Asset(UUSD, 3)
    /\ Orders("alice")[Target("alice", last.id)].initial_asset = Asset(CW20, 1)
    /\ last.msgs = <<BankSend("alice", "uusd", 3)>>

\* C20: a successful ModifyDcaOrder replaces, in the order it finds, the
\* initial_asset, target_asset, interval and dca_amount by the parameters and
\* last_purchase by new_first_purchase if one is given; that order's id, its
\* last_purchase if none is given, every other order, the caller's user
\* configuration and the contract configuration stay as they were.
ModifyFrame ==
    \A sender \in Book.senders, id \in Book.ids, m \in Book.modifies :
        LET idx == Target(sender, id)
            out == Modify(sender, id, m)
            old == Orders(sender)
            new == LoadOrders(out.USER_DCA, sender)
        IN  out.res.kind = "Ok"
            => /\ idx # 0
               /\ Len(new) = Len(old)
               /\ \A j \in DOMAIN old : j # idx => new[j] = old[j]
               /\ new[idx] = [id |-> old[idx].id,
                              initial_asset |-> m.initial_asset,
                              target_asset |-> m.target_asset,
                              interval |-> m.interval,
                              last_purchase |-> IF m.first_purchase = None
                                                THEN old[idx].last_purchase
                                                ELSE m.first_purchase[1],
                              dca_amount |-> m.dca_amount]
               /\ \A u \in Users \ {sender} : out.USER_DCA[u] = USER_DCA[u]
               /\ out.USER_CONFIG = USER_CONFIG
               /\ out.CONFIG = CONFIG

ModifyFrameWitness ==
    /\ last.op = "modify_dca_order"
    /\ last.res.kind = "Ok"
    /\ last.order.last_purchase = 1
    /\ Len(Orders("alice")) = 2
    /\ Orders("alice")[Target("alice", last.id)].last_purchase = 1
    /\ Orders("alice")[Target("alice", last.id)].interval # last.order.interval
    /\ USER_CONFIG["alice"] # None

-----------------------------------------------------------------------------
(* Properties of purchases and of the configuration *)

\* C21: an order that was created with first_purchase = F and not touched
\* since (last_purchase = F, or 0 when first_purchase was omitted) is not
\* purchased at a block time before F, and at a block time t >= F a purchase is
\* not refused as too early.
FirstPurchaseScheduling ==
    \A user \in Book.senders, id \in Book.ids :
    \A sender \in Book.keepers, hops \in Book.routes, fee_redeem \in Book.fee_redeems :
        LET idx == Target(user, id)
            out == perform_dca_purchase(sender, user, id, hops, fee_redeem, TRUE)
        IN  (/\ idx # 0
             /\ book[user][idx].spent = 0
             /\ ~book[user][idx].modified)
            => IF now < Orders(user)[idx].last_purchase
               THEN out.res.kind # "Ok"
               ELSE out.res.kind # "PurchaseTooEarly"

\* the amount of an asset a fee_redeem list asks for, from entry i on
RECURSIVE Redeemed(_, _, _)
Redeemed(fee_redeem, info, i) == IF i > Len(fee_redeem) THEN 0 ELSE (IF fee_redeem[i].info = info THEN fee_redeem[i].amount ELSE 0) + Redeemed(fee_redeem, info, i + 1)

\* the payment of a tip to the keeper
TipPayment(fee_asset, user, sender) == IF fee_asset.info.native THEN BankSend(sender, fee_asset.info.id, fee_asset.amount) ELSE TransferFrom(fee_asset.info, user, sender, fee_asset.amount)

\* C22: in a successful PerformDcaPurchase the beneficiary's tip balance of
\* every asset falls by exactly what the fee_redeem entries of that asset ask
\* for (by nothing for an asset not redeemed), and for each entry exactly one
\* payment of the entry's amount to the calling keeper is emitted: a bank
\* transfer for a native asset, a TransferFrom from the beneficiary to the
\* keeper for a ledger asset.
KeeperPayment ==
    \A user \in Keeper.senders, id \in Keeper.ids :
    \A sender \in Keeper.keepers, hops \in Keeper.routes, fee_redeem \in Keeper.fee_redeems :
        LET out == perform_dca_purchase(sender, user, id, hops, fee_redeem, TRUE)
            before == LoadUserConfig(USER_CONFIG, user)
            after == LoadUserConfig(out.USER_CONFIG, user)
        IN  out.res.kind = "Ok"
            => /\ \A info \in {UUSD, ULUNA, CW20} :
                     Balance(after, info) = Balance(before, info) - Redeemed(fee_redeem, info, 1)
               /\ Len(after.tip_balance) = Len(before.tip_balance)
               /\ \A b \in DOMAIN before.tip_balance :
                     after.tip_balance[b].info = before.tip_balance[b].info
               /\ \A i \in DOMAIN fee_redeem :
                     out.msgs[i] = TipPayment(fee_redeem[i], user, sender)
               /\ Cardinality({i \in DOMAIN out.msgs : out.msgs[i].to = sender}) = Len(fee_redeem)

KeeperPaymentWitness ==
    /\ last.op = "perform_dca_purchase"
    /\ last.res.kind = "Ok"
    /\ Len(last.msgs) = 4
    /\ last.msgs[1] = BankSend("keeper", "uusd", 1)
    /\ last.msgs[2] = TransferFrom(CW20, "alice", "keeper", 1)

\* C23: the messages of a successful PerformDcaPurchase are, in this order:
\* the tip payments in the order of fee_redeem; for a ledger initial asset
\* only, one TransferFrom of dca_amount from the beneficiary to the router;
\* one swap message to the router with the hops given, no minimum_receive, the
\* beneficiary as destination and the beneficiary's max_spread, or the
\* configured one if the beneficiary has none, carrying dca_amount of the
\* denom as funds for a native initial asset and no funds for a ledger one.
MessageOrder ==
    \A user \in Keeper.senders, id \in Keeper.ids :
    \A sender \in Keeper.keepers, hops \in Keeper.routes, fee_redeem \in Keeper.fee_redeems :
        LET out == perform_dca_purchase(sender, user, id, hops, fee_redeem, TRUE)
            order == Orders(user)[Target(user, id)]
            tips == Len(fee_redeem)
            ledger == ~order.initial_asset.info.native
            swap == out.msgs[Len(out.msgs)]
            override == LoadUserConfig(USER_CONFIG, user).max_spread
        IN  out.res.kind = "Ok"
            => /\ Len(out.msgs) = tips + (IF ledger THEN 2 ELSE 1)
               /\ \A i \in 1..tips : out.msgs[i] = TipPayment(fee_redeem[i], user, sender)
               /\ ledger => out.msgs[tips + 1]
                            = TransferFrom(order.initial_asset.info, user,
                                           CONFIG.router_addr, order.dca_amount)
               /\ swap.type = "swap"
               /\ swap.contract = CONFIG.router_addr
               /\ swap.hops = hops
               /\ swap.minimum_receive = None
               /\ swap.to = user
               /\ swap.max_spread = IF override = None THEN CONFIG.max_spread ELSE override[1]
               /\ IF ledger
                  THEN swap.asset = NoInfo /\ swap.amount = 0
                  ELSE swap.asset = order.initial_asset.info /\ swap.amount = order.dca_amount

MessageOrderWitness ==
    /\ last.op = "perform_dca_purchase"
    /\ last.res.kind = "Ok"
    /\ Len(last.msgs) = 4
    /\ last.msgs[3] = TransferFrom(CW20, "alice", Router, 1)
    /\ last.msgs[4].type = "swap"
    /\ last.msgs[4].max_spread = 2
    /\ CONFIG.max_spread = 1

\* C24: a successful PerformDcaPurchase changes one order only, the one the id
\* finds: its initial_asset.amount falls by exactly dca_amount and its
\* last_purchase becomes the block time (the order is dropped when nothing is
\* left of it); every other order of the beneficiary, the orders and the
\* configuration of every other user and CONFIG stay as they were, and so do
\* the beneficiary's last_id, max_hops and max_spread.
PurchaseFrame ==
    \A user \in Keeper.senders, id \in Keeper.ids :
    \A sender \in Keeper.keepers, hops \in Keeper.routes, fee_redeem \in Keeper.fee_redeems :
        LET out == perform_dca_purchase(sender, user, id, hops, fee_redeem, TRUE)
            idx == Target(user, id)
            old == Orders(user)
            new == LoadOrders(out.USER_DCA, user)
            before == LoadUserConfig(USER_CONFIG, user)
            after == LoadUserConfig(out.USER_CONFIG, user)
        IN  out.res.kind = "Ok"
            => /\ idx # 0
               /\ IF old[idx].initial_asset.amount = old[idx].dca_amount
                  THEN /\ Len(new) = Len(old) - 1
                       /\ \A j \in DOMAIN new : new[j] = IF j < idx THEN old[j] ELSE old[j + 1]
                  ELSE /\ Len(new) = Len(old)
                       /\ \A j \in DOMAIN old : j # idx => new[j] = old[j]
                       /\ new[idx] = [id |-> old[idx].id,
                                      initial_asset |->
                                          Asset(old[idx].initial_asset.info,
                                                old[idx].initial_asset.amount
                                                - old[idx].dca_amount),
                                      target_asset |-> old[idx].target_asset,
                                      interval |-> old[idx].interval,
                                      last_purchase |-> now,
                                      dca_amount |-> old[idx].dca_amount]
               /\ \A u \in Users \ {user} :
                     out.USER_DCA[u] = USER_DCA[u] /\ out.USER_CONFIG[u] = USER_CONFIG[u]
               /\ out.CONFIG = CONFIG
               /\ after.last_id = before.last_id
               /\ after.max_hops = before.max_hops
               /\ after.max_spread = before.max_spread

PurchaseFrameWitness ==
    /\ last.op = "perform_dca_purchase"
    /\ last.res.kind = "Ok"
    /\ last.order.initial_asset.amount = 2
    /\ last.order.last_purchase = 0
    /\ Len(Orders("alice")) = 2
    /\ Orders("alice")[Target("alice", last.id)].initial_asset.amount = 1
    /\ Orders("alice")[Target("alice", last.id)].last_purchase = 1
    /\ LoadUserConfig(USER_CONFIG, "alice").max_spread = Some(2)

\* C25: the tip balance of every user holds at most one entry per asset,
\* whatever AddBotTip (lists naming an asset twice included), Withdraw and
\* PerformDcaPurchase calls were made.
OneEntryPerAsset ==
    \A u \in Users :
        LET tip_balance == LoadUserConfig(USER_CONFIG, u).tip_balance
        IN  \A i, j \in DOMAIN tip_balance :
                tip_balance[i].info = tip_balance[j].info => i = j

OneEntryPerAssetWitness ==
    /\ last.op = "withdraw"
    /\ last.res.kind = "Ok"
    /\ Len(LoadUserConfig(USER_CONFIG, "alice").tip_balance) = 2
    /\ Balance(LoadUserConfig(USER_CONFIG, "alice"), UUSD) = 1
    /\ Balance(LoadUserConfig(USER_CONFIG, "alice"), CW20) = 2

\* C26: a Withdraw of more of an asset than the caller's tip balance holds of
\* it fails with the underflow error of the checked subtraction, which carries
\* the balance and the amount asked for; it emits no message and leaves the
\* tip balance as it was.
ExcessWithdraw ==
    \A sender \in Tips.senders, assets \in Tips.withdraws :
        LET out == withdraw(sender, assets)
            user_config == LoadUserConfig(USER_CONFIG, sender)
            b == Position([at \in DOMAIN user_config.tip_balance |-> user_config.tip_balance[at].info = assets[1].info])
        IN  (/\ Len(assets) = 1
             /\ b # 0
             /\ assets[1].amount > user_config.tip_balance[b].amount)
            => /\ out.res = Error("Overflow", <<"sub", user_config.tip_balance[b].amount,
                                               assets[1].amount>>)
               /\ out.msgs = <<>>
               /\ out.USER_CONFIG = USER_CONFIG

\* what UpdateConfig answers in the current state
ConfigAnswers ==
    \A sender \in Preferences.config_senders, u \in Preferences.configs :
        LET out == update_config(sender, u.max_hops, u.whitelisted_fee_assets,
                                 u.whitelisted_tokens, u.max_spread)
        IN  IF sender # Owner
            THEN out.res.kind = "Unauthorized" /\ out.CONFIG = CONFIG
            ELSE /\ out.res.kind = "Ok"
                 /\ out.CONFIG.max_hops
                    = IF u.max_hops = None THEN CONFIG.max_hops ELSE u.max_hops[1]
                 /\ out.CONFIG.whitelisted_fee_assets
                    = IF u.whitelisted_fee_assets = None THEN CONFIG.whitelisted_fee_assets
                      ELSE u.whitelisted_fee_assets[1]
                 /\ out.CONFIG.whitelisted_tokens
                    = IF u.whitelisted_tokens = None THEN CONFIG.whitelisted_tokens
                      ELSE u.whitelisted_tokens[1]
                 /\ out.CONFIG.max_spread
                    = IF u.max_spread = None THEN CONFIG.max_spread ELSE u.max_spread[1]
                 /\ out.CONFIG.factory_addr = CONFIG.factory_addr
                 /\ out.CONFIG.router_addr = CONFIG.router_addr

\* C27: CONFIG changes only in a successful UpdateConfig sent by the owner
\* the factory records; an UpdateConfig of any other sender is answered
\* Unauthorized and leaves CONFIG as it was; a successful one replaces the
\* fields supplied and keeps the omitted ones, factory_addr and router_addr.
ConfigAuthority ==
    /\ []ConfigAnswers
    /\ [][CONFIG' # CONFIG
          => /\ last'.op = "update_config"
             /\ last'.res.kind = "Ok"
             /\ last'.sender = Owner]_vars

ConfigAuthorityWitness ==
    /\ last.op = "update_config"
    /\ last.res.kind = "Ok"
    /\ CONFIG.max_hops = 1
    /\ CONFIG.max_spread = 2
    /\ Len(CONFIG.whitelisted_fee_assets) = 2
    /\ CONFIG.whitelisted_tokens = <<CW20>>

\* C28: UpdateUserConfig sets the caller's max_hops and max_spread overrides
\* to exactly the optional values supplied, None clearing the override, and
\* leaves the caller's tip_balance and last_id as they were.
UserConfigFrame ==
    \A sender \in Preferences.senders, u \in Preferences.user_configs :
        LET out == update_user_config(sender, u.max_hops, u.max_spread)
            before == LoadUserConfig(USER_CONFIG, sender)
            after == LoadUserConfig(out.USER_CONFIG, sender)
        IN  /\ out.res.kind = "Ok"
            /\ after.max_hops = u.max_hops
            /\ after.max_spread = u.max_spread
            /\ after.tip_balance = before.tip_balance
            /\ after.last_id = before.last_id

UserConfigFrameWitness ==
    /\ last.op = "update_user_config"
    /\ last.res.kind = "Ok"
    /\ LoadUserConfig(USER_CONFIG, "alice").max_hops = None
    /\ LoadUserConfig(USER_CONFIG, "alice").max_spread = Some(1)
    /\ LoadUserConfig(USER_CONFIG, "alice").last_id = 1
    /\ Balance(LoadUserConfig(USER_CONFIG, "alice"), UUSD) = 2

\* C29: a ModifyDcaOrder and a CancelDcaOrder naming an id that none of the
\* caller's own orders has (the caller may never have created one) fail with
\* NonexistentDca, emit nothing and leave the storage as it was.
UnknownOrder ==
    \A sender \in Users, id \in 1..MaxU64 :
        Target(sender, id) = 0
        => LET cancelled == cancel_dca_order(sender, id)
           IN  /\ cancelled.res.kind = "NonexistentDca"
               /\ cancelled.msgs = <<>>
               /\ cancelled.USER_DCA = USER_DCA
               /\ cancelled.USER_CONFIG = USER_CONFIG
               /\ cancelled.CONFIG = CONFIG
               /\ \A m \in Book.modifies :
                     LET modified == Modify(sender, id, m)
                     IN  /\ modified.res.kind = "NonexistentDca"
                         /\ modified.msgs = <<>>
                         /\ modified.USER_DCA = USER_DCA
                         /\ modified.USER_CONFIG = USER_CONFIG
                         /\ modified.CONFIG = CONFIG

UnknownOrderWitness ==
    /\ last.op = "cancel_dca_order"
    /\ last.res.kind = "NonexistentDca"
    /\ Len(Orders("alice")) = 1
    /\ Orders("alice")[1].id = 2
    /\ USER_DCA["bob"] = None

\* the amounts of the assets of a list that are of one identity, from entry i on
RECURSIVE Total(_, _, _)
Total(assets, info, i) == IF i > Len(assets) THEN 0 ELSE (IF assets[i].info = info THEN assets[i].amount ELSE 0) + Total(assets, info, i + 1)

\* the initial assets of a list of orders
Deposits(orders) == [i \in DOMAIN orders |-> orders[i].initial_asset]

\* what the contract owes a user in a native denom: what is left of the
\* user's orders funded in it and the user's tip balance of it
Owed(u, denom) == Total(Deposits(Orders(u)), Native(denom), 1) + Total(LoadUserConfig(USER_CONFIG, u).tip_balance, Native(denom), 1)

\* C30: in every native denom, what the contract owes all users together (the
\* remaining amounts of the stored orders funded in the denom and the tip
\* balances of the denom) never exceeds what successful calls attached in that
\* denom less what the emitted bank transfers and swap funds sent out.
NativeSolvency ==
    \A denom \in Denoms : Owed("alice", denom) + Owed("bob", denom) <= held[denom]

----------------------------------------------------------------------------
(* Properties of the stored orders and of the purchase checks *)

\* C31: every stored order is well-formed, whatever creations, modifications,
\* purchases and cancellations came before: its dca_amount is positive and
\* its remaining initial amount is a positive multiple of its dca_amount.
StoredOrdersWellFormed ==
    \A u \in Users : \A i \in DOMAIN Orders(u) :
        /\ Orders(u)[i].dca_amount > 0
        /\ Orders(u)[i].initial_asset.amount > 0
        /\ Orders(u)[i].initial_asset.amount % Orders(u)[i].dca_amount = 0

\* C32: the eligibility test of a purchase is the comparison of the unbounded
\* sum last_purchase + interval with the block time, in every build: a call
\* that reaches the test never aborts, and on an order whose sum does not fit
\* in a u64 it returns an error value and is never made eligible by the sum
\* wrapping around.
EligibilityUnbounded ==
    \A user \in Wraparound.senders : \A idx \in 1..Len(Orders(user)) :
    \A sender \in Wraparound.keepers, hops \in Wraparound.routes,
       fee_redeem \in Wraparound.fee_redeems, overflow_checks \in BOOLEAN :
        LET order == Orders(user)[idx]
            out == perform_dca_purchase(sender, user, order.id, hops, fee_redeem,
                                        overflow_checks)
        IN  (Position([at \in DOMAIN Orders(user) |-> Orders(user)[at].id = order.id]) = idx)
            => /\ out.res.kind # "Panic"
               /\ (order.last_purchase + order.interval > MaxU64) => out.res.kind # "Ok"
               /\ (out.res.kind = "PurchaseTooEarly")
                     => now < order.last_purchase + order.interval

\* the tip balance of `after` holds no asset `before` does not hold and no
\* more of any asset than `before` does
TipsOnlyLess(before, after) ==
    \A i \in DOMAIN after.tip_balance :
        after.tip_balance[i].amount <= Balance(before, after.tip_balance[i].info)

\* `after` is `before` with only the remaining amount lowered (and the time of
\* the purchase recorded)
OnlySpent(before, after) ==
    /\ after.initial_asset.amount < before.initial_asset.amount
    /\ after = [before EXCEPT !.initial_asset.amount = after.initial_asset.amount,
                              !.last_purchase = after.last_purchase]

\* the orders `after` are the orders `before` with one of them spent from, or
\* removed
OneOrderSpent(before, after) ==
    \/ after = before
    \/ /\ Len(after) = Len(before)
       /\ \E k \in DOMAIN before :
            /\ OnlySpent(before[k], after[k])
            /\ \A j \in DOMAIN before : j # k => after[j] = before[j]
    \/ \E k \in DOMAIN before : after = Remove(before, k)

\* the calls of one sender that are not purchases, each with inputs that
\* succeed in some states: the outcomes of the six handlers
OwnCalls(A) ==
    { create_dca_order(A, c.initial_asset, c.target_asset, c.interval, c.dca_amount,
                       c.first_purchase, c.funds, c.allowance) : c \in Isolation.creates }
    \cup { Modify(A, id, m) : id \in 1..MaxU64,
                              m \in Isolation.modifies \cup
                                    { CreateMsg(Asset(UUSD, 1), ULUNA, 1, 1, Some(1), <<>>, 0),
                                      CreateMsg(Asset(CW20, 1), ULUNA, 0, 1, None, <<>>, 1) } }
    \cup { cancel_dca_order(A, id) : id \in 1..MaxU64 }
    \cup { add_bot_tip(A, t.assets, t.funds, t.allowance) :
              t \in Isolation.tips \cup { TipMsg(<<Asset(UUSD, 1)>>, <<Coin("uusd", 1)>>, 0) } }
    \cup { withdraw(A, assets) : assets \in { <<>>, <<Asset(UUSD, 1)>>, <<Asset(UUSD, 2)>>,
                                               <<Asset(UUSD, 4)>> } }
    \cup { update_user_config(A, u.max_hops, u.max_spread) :
              u \in { UserConfigMsg(None, None), UserConfigMsg(Some(1), Some(2)) } }

Unmodified(u, i) == i \in DOMAIN Orders(u) /\ ~book[u][i].modified

\* the blocks still to come leave the time for the purchases the user's order
\* has left, the next one when it is due and the others an interval apart
HasTime(u) ==
    LET order == Orders(u)[1]
        due == order.last_purchase + order.interval
        left == order.initial_asset.amount \div order.dca_amount
    IN  (IF due > now THEN due ELSE now) + (left - 1) * order.interval <= Exhaustion.horizon

\* no order of the user is left, or the one there was has been modified
GoneOrModified(u) == Orders(u) = <<>> \/ book[u][1].modified

\* C34: an order created with k * dca_amount and never modified or cancelled
\* takes exactly k successful purchases, the k-th of which removes it: while
\* stored it holds what was deposited less what was spent, at least one
\* dca_amount, so that no purchase on it fails with InsufficientBalance; each
\* successful purchase spends one dca_amount and removes the order exactly
\* when the deposit is spent; and with blocks coming and a keeper who keeps
\* purchasing, an order is eventually removed, unless it is modified or
\* cancelled or the blocks to come no longer leave the time for its purchases.
RunToExhaustion ==
    /\ [](\A u \in Exhaustion.senders : \A i \in DOMAIN Orders(u) :
            Unmodified(u, i)
            => /\ Orders(u)[i].initial_asset.amount = book[u][i].deposited - book[u][i].spent
               /\ Orders(u)[i].initial_asset.amount >= Orders(u)[i].dca_amount
               /\ book[u][i].spent % Orders(u)[i].dca_amount = 0
               /\ \A sender \in Exhaustion.keepers, hops \in Exhaustion.routes :
                     perform_dca_purchase(sender, u, Orders(u)[i].id, hops, <<>>, TRUE).res.kind
                        # "InsufficientBalance")
    /\ [][(/\ last'.op = "perform_dca_purchase"
           /\ last'.res.kind = "Ok"
           /\ ~last'.entry.modified)
          => /\ Spent(last'.msgs) = last'.order.dca_amount
             /\ last'.entry.spent + last'.order.dca_amount <= last'.entry.deposited
             /\ (\A at \in DOMAIN LoadOrders(USER_DCA', last'.user) :
                      LoadOrders(USER_DCA', last'.user)[at].id # last'.id)
                   <=> (last'.entry.spent + last'.order.dca_amount = last'.entry.deposited)]_vars
    /\ \A u \in Exhaustion.senders :
          (Unmodified(u, 1) /\ HasTime(u)) ~> (GoneOrModified(u) \/ ~HasTime(u))

RunToExhaustionWitness ==
    /\ last.op = "perform_dca_purchase"
    /\ last.res.kind = "Ok"
    /\ ~last.entry.modified
    /\ last.entry.deposited = 2
    /\ last.entry.spent = 1
    /\ last.order.dca_amount = 1
    /\ Orders(last.user) = <<>>

\* the longest route tried
MaxRoute == 3

\* the hops tried: native and pool swaps into listed and unlisted assets
Hops == {NativeSwap("uluna"), NativeSwap("ukrw"), AstroSwap(ULUNA), AstroSwap(CW20)}

\* every route of at most MaxRoute hops
AllRoutes == UNION {[1..n -> Hops] : n \in 0..MaxRoute}

\* the first hop before the last whose output is not a whitelisted token, 0
\* when there is none
FirstUnlisted(hops) ==
    Position([at \in 1..(Len(hops) - 1) |->
                ~is_whitelisted_asset(CONFIG, get_target_asset_info(hops[at]))])

\* C35: a purchase whose route has a hop before the last with an output that
\* is not a whitelisted token never succeeds, and (the route being non-empty
\* and within the hop limit) fails with InvalidHopRoute naming the first such
\* output; the output of the last hop is not tested: a route whose earlier
\* hops are all whitelisted never fails with InvalidHopRoute.
MiddleHopWhitelist ==
    \A sender \in Routes.keepers, user \in Routes.senders :
    \A id \in Routes.ids, hops \in AllRoutes :
        LET out == perform_dca_purchase(sender, user, id, hops, <<>>, TRUE)
            bad == FirstUnlisted(hops)
        IN  IF bad # 0
            THEN /\ out.res.kind # "Ok"
                 /\ Len(hops) <= Limit(user)
                    => /\ out.res.kind = "InvalidHopRoute"
                       /\ out.res.info = <<get_target_asset_info(hops[bad]).id>>
            ELSE out.res.kind # "InvalidHopRoute"

MiddleHopWhitelistWitness ==
    /\ last.op = "perform_dca_purchase"
    /\ last.res.kind = "InvalidHopRoute"
    /\ last.res.info = <<"ukrw">>
    /\ Limit("alice") = 3
    /\ Orders("alice") # <<>>
    /\ \E hops \in AllRoutes \ {<<>>} :
          /\ ~is_whitelisted_asset(CONFIG, get_target_asset_info(hops[Len(hops)]))
          /\ perform_dca_purchase("keeper", "alice", 1, hops, <<>>, TRUE).res.kind = "Ok"

\* C37: a purchase succeeds only if its route has at least one hop and at
\* most M, M being the beneficiary's max_hops override when set and the
\* global max_hops otherwise; an empty route fails with EmptyHopRoute and a
\* longer one with MaxHopsAssertion carrying its length.
RouteLengthBounds ==
    \A sender \in Routes.keepers, user \in Routes.senders :
    \A id \in Routes.ids, hops \in AllRoutes :
        LET out == perform_dca_purchase(sender, user, id, hops, <<>>, TRUE)
            override == LoadUserConfig(USER_CONFIG, user).max_hops
            M == IF override = None THEN CONFIG.max_hops ELSE override[1]
        IN  /\ out.res.kind = "Ok" => (1 <= Len(hops) /\ Len(hops) <= M)
            /\ hops = <<>> => out.res.kind = "EmptyHopRoute"
            /\ Len(hops) > M => /\ out.res.kind = "MaxHopsAssertion"
                                /\ out.res.info = <<Len(hops)>>

RouteLengthBoundsWitness ==
    /\ last.op = "perform_dca_purchase"
    /\ last.res.kind = "MaxHopsAssertion"
    /\ last.res.info = <<2>>
    /\ CONFIG.max_hops = 2
    /\ LoadUserConfig(USER_CONFIG, "alice").max_hops = Some(1)
    /\ perform_dca_purchase("keeper", "alice", 1, <<>>, <<>>, TRUE).res.kind = "EmptyHopRoute"
    /\ \E hops \in AllRoutes :
          perform_dca_purchase("keeper", "alice", 1, hops, <<>>, TRUE).res.kind = "Ok"

\* the steps of a purchase that come before the tests of the order found
BeforeOrderTests ==
    {"EmptyHopRoute", "MaxHopsAssertion", "InvalidHopRoute", "FeeAsset",
     "RedeemTipTooLarge", "InsufficientTipBalance", "NonexistentDca"}

\* the purchase passes every step before the tests of the order found, and
\* the order is due
ReachesOrder(user, id, hops, fee_redeem) ==
    /\ \A step \in BeforeOrderTests : ~Fails(step, user, id, hops, fee_redeem)
    /\ Orders(user)[Target(user, id)].last_purchase
          + Orders(user)[Target(user, id)].interval <= now

\* C36: a purchase succeeds only if the output of the last hop of its route
\* is the target_asset of the order it matches; one that gets as far as this
\* test with another output fails with TargetAssetAssertion, changing neither
\* the orders nor the tip balance and emitting no message.
TargetCheck ==
    \A sender \in Purchase.keepers, user \in Purchase.senders :
    \A id \in Purchase.ids, hops \in Purchase.routes, fee_redeem \in Purchase.fee_redeems,
       overflow_checks \in BOOLEAN :
        LET out == perform_dca_purchase(sender, user, id, hops, fee_redeem,
                                        overflow_checks)
        IN  /\ out.res.kind = "Ok"
               => /\ Target(user, id) # 0
                  /\ get_target_asset_info(hops[Len(hops)])
                        = Orders(user)[Target(user, id)].target_asset
            /\ (/\ ReachesOrder(user, id, hops, fee_redeem)
                /\ get_target_asset_info(hops[Len(hops)])
                      # Orders(user)[Target(user, id)].target_asset)
               => out.res.kind = "TargetAssetAssertion"
            /\ out.res.kind = "TargetAssetAssertion"
               => /\ out.USER_DCA = USER_DCA
                  /\ out.USER_CONFIG = USER_CONFIG
                  /\ out.msgs = <<>>

TargetCheckWitness ==
    /\ last.op = "perform_dca_purchase"
    /\ last.res.kind = "TargetAssetAssertion"
    /\ Orders("alice") # <<>>
    /\ Balance(LoadUserConfig(USER_CONFIG, "alice"), UUSD) > 0
    /\ \E fee_redeem \in Purchase.fee_redeems \ {<<>>} :
          perform_dca_purchase("keeper", "alice", 1, <<AstroSwap(CW20)>>, fee_redeem,
                               TRUE).res.kind = "TargetAssetAssertion"

\* the fee entries tried: listed and unlisted assets, amounts from 0 up
FeeEntries ==
    {Asset(UUSD, a) : a \in 0..3} \cup {Asset(CW20, 1), Asset(CW20, 2), Asset(ULUNA, 1)}

\* every fee_redeem of at most two entries
FeeLists == UNION {[1..n -> FeeEntries] : n \in 0..2}

\* the steps of a purchase that test the route
RouteTests == {"EmptyHopRoute", "MaxHopsAssertion", "InvalidHopRoute"}

\* whether a fee entry passes the validation: its asset is a whitelisted fee
\* asset with a unit that is not zero and divides the amount
ValidFee(a) ==
    /\ is_whitelisted_fee_asset(CONFIG, a.info)
    /\ Unit(a.info) # 0
    /\ a.amount % Unit(a.info) = 0

\* C38: of a purchase whose route passes, every fee_redeem entry must name a
\* whitelisted fee asset and an amount that is a multiple of its fee unit:
\* the call succeeds only if every entry does, and otherwise returns, for the
\* first entry that does not, NonWhitelistedTipAsset with the asset,
\* IndivisibleDeposit, or the divide-by-zero error when the unit is zero,
\* without aborting.
FeeAssetValidation ==
    \A sender \in Fees.keepers, user \in Fees.senders :
    \A id \in Fees.ids, hops \in Fees.routes, fee_redeem \in FeeLists :
        LET out == perform_dca_purchase(sender, user, id, hops, fee_redeem, TRUE)
            bad == Position([at \in DOMAIN fee_redeem |-> ~ValidFee(fee_redeem[at])])
        IN  /\ bad # 0 => out.res.kind # "Panic"
            /\ out.res.kind = "Ok" => bad = 0
            /\ out.res.kind \in {"NonWhitelistedTipAsset", "DivideByZero"} => bad # 0
            /\ ((\A step \in RouteTests : ~Fails(step, user, id, hops, fee_redeem)) /\ bad # 0)
               => IF ~is_whitelisted_fee_asset(CONFIG, fee_redeem[bad].info)
                  THEN /\ out.res.kind = "NonWhitelistedTipAsset"
                       /\ out.res.info = <<fee_redeem[bad].info>>
                  ELSE IF Unit(fee_redeem[bad].info) = 0
                  THEN out.res.kind = "DivideByZero"
                  ELSE out.res.kind = "IndivisibleDeposit"

FeeAssetValidationWitness ==
    /\ last.op = "perform_dca_purchase"
    /\ last.res.kind = "DivideByZero"
    /\ Orders("alice") # <<>>
    /\ Balance(LoadUserConfig(USER_CONFIG, "alice"), UUSD) > 0
    /\ perform_dca_purchase("keeper", "alice", 1, <<AstroSwap(ULUNA)>>, <<Asset(CW20, 1)>>,
                            TRUE).res.kind = "NonWhitelistedTipAsset"

\* the steps of a purchase that come before the tip deduction
BeforeTips ==
    {"EmptyHopRoute", "MaxHopsAssertion", "InvalidHopRoute", "FeeAsset", "RedeemTipTooLarge"}

\* C39: a purchase whose route and fee_redeem pass the route, whitelist,
\* divisibility and hop-count checks, and whose fee_redeem names an asset the
\* beneficiary holds no tip entry of, or more of an asset than the entry
\* holds, fails with InsufficientTipBalance, whether the order exists or not,
\* and changes neither tip balances nor orders nor emits a message.
UncoveredFee ==
    \A sender \in Fees.keepers, user \in Fees.senders :
    \A id \in 1..2, hops \in Fees.routes, fee_redeem \in FeeLists :
        LET out == perform_dca_purchase(sender, user, id, hops, fee_redeem, TRUE)
            tip_balance == LoadUserConfig(USER_CONFIG, user).tip_balance
        IN  /\ (/\ \A step \in BeforeTips : ~Fails(step, user, id, hops, fee_redeem)
                /\ \E i \in DOMAIN fee_redeem :
                      \/ \A b \in DOMAIN tip_balance : tip_balance[b].info # fee_redeem[i].info
                      \/ \E b \in DOMAIN tip_balance :
                            /\ tip_balance[b].info = fee_redeem[i].info
                            /\ tip_balance[b].amount < fee_redeem[i].amount)
               => out.res.kind = "InsufficientTipBalance"
            /\ out.res.kind = "InsufficientTipBalance"
               => /\ out.USER_DCA = USER_DCA
                  /\ out.USER_CONFIG = USER_CONFIG
                  /\ out.msgs = <<>>

UncoveredFeeWitness ==
    /\ last.op = "perform_dca_purchase"
    /\ last.res.kind = "InsufficientTipBalance"
    /\ Orders("alice") # <<>>
    /\ Balance(LoadUserConfig(USER_CONFIG, "alice"), UUSD) = 1
    /\ Unit(UUSD) = 2
    /\ perform_dca_purchase("keeper", "alice", 2, <<AstroSwap(ULUNA)>>, <<Asset(UUSD, 2)>>,
                            TRUE).res.kind = "InsufficientTipBalance"

\* C40: a purchase that gets as far as the deduction on an order whose
\* dca_amount exceeds what the order holds fails with InsufficientBalance (no
\* abort, no wrap-around): the order with its last_purchase and the tip
\* balance stay as they were and no message, so no keeper payment, is
\* emitted.
OrderUnderfunded ==
    \A sender \in Fees.keepers, user \in Fees.senders :
    \A id \in Fees.ids, hops \in Fees.routes, fee_redeem \in FeeLists,
       overflow_checks \in BOOLEAN :
        LET out == perform_dca_purchase(sender, user, id, hops, fee_redeem,
                                        overflow_checks)
        IN  /\ (/\ ReachesOrder(user, id, hops, fee_redeem)
                /\ get_target_asset_info(hops[Len(hops)])
                      = Orders(user)[Target(user, id)].target_asset
                /\ Orders(user)[Target(user, id)].dca_amount
                      > Orders(user)[Target(user, id)].initial_asset.amount)
               => out.res.kind = "InsufficientBalance"
            /\ out.res.kind = "InsufficientBalance"
               => /\ out.USER_DCA = USER_DCA
                  /\ out.USER_CONFIG = USER_CONFIG
                  /\ out.msgs = <<>>
            /\ out.res.kind = "Ok"
               => Orders(user)[Target(user, id)].dca_amount
                     <= Orders(user)[Target(user, id)].initial_asset.amount

OrderUnderfundedWitness ==
    /\ last.op = "perform_dca_purchase"
    /\ last.res.kind = "InsufficientBalance"
    /\ Orders("alice") # <<>>
    /\ Orders("alice")[1].dca_amount = 2
    /\ Orders("alice")[1].initial_asset.amount = 1
    /\ Balance(LoadUserConfig(USER_CONFIG, "alice"), UUSD) > 0
    /\ perform_dca_purchase("keeper", "alice", 1, <<AstroSwap(ULUNA)>>, <<Asset(UUSD, 1)>>,
                            TRUE).res.kind = "InsufficientBalance"

====
